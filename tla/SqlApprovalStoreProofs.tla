------------------------ MODULE SqlApprovalStoreProofs ------------------------
(* What the SQL approval store keeps however its sessions interleave: for any  *)
(* number of requests, approvers, deadlines and deaths of processes.           *)
EXTENDS SqlApprovalStore, TLAPS

\* A sequence and the one that has an element more.
LEMMA Appended ==
    ASSUME NEW S, NEW s \in Seq(S), NEW e \in S
    PROVE  /\ Append(s, e) \in Seq(S)
           /\ Len(Append(s, e)) = Len(s) + 1
           /\ \A i \in 1 .. Len(s) : Append(s, e)[i] = s[i]
           /\ Append(s, e)[Len(s) + 1] = e
           /\ ToSet(Append(s, e)) = ToSet(s) \cup {e}
<1>1. /\ Append(s, e) \in Seq(S)
      /\ Len(Append(s, e)) = Len(s) + 1
      /\ \A i \in 1 .. Len(s) : Append(s, e)[i] = s[i]
      /\ Append(s, e)[Len(s) + 1] = e
  OBVIOUS
<1>2. DOMAIN s = 1 .. Len(s) /\ DOMAIN Append(s, e) = 1 .. (Len(s) + 1)
  BY <1>1
<1>3. 1 .. (Len(s) + 1) = 1 .. Len(s) \cup {Len(s) + 1}
  BY Len(s) \in Nat
<1>4. ToSet(Append(s, e)) = ToSet(s) \cup {e}
  BY <1>1, <1>2, <1>3 DEF ToSet
<1>5. QED
  BY <1>1, <1>4

-------------------------------------------------------------------------------
(* types *)

\* The types hold before anything happens.
LEMMA TypeInit == Init => TypeOK
<1> SUFFICES ASSUME Init PROVE TypeOK
  OBVIOUS
<1>1. NoRow \in Row
  BY DEF NoRow, Row
<1>2. "idle" \in Steps /\ "no" \in {"no", "ok", "error"} /\ "no" \in {"no", "saved", "over"}
  BY DEF Steps
<1>3. /\ asked \in {"no", "saved", "over"} /\ row \in Row
      /\ events \in Seq(Entry) /\ audit \in Seq(Entry) /\ clock \in Nat
  BY <1>1, <1>2 DEF Init
<1>4. /\ pc \in [Workers -> Steps] /\ task \in [Workers -> Tasks] /\ at \in [Workers -> Nat]
      /\ copy \in [Workers -> Row] /\ base \in [Workers -> Row]
      /\ ran \in [Workers -> {"no", "ok", "error"}]
  BY <1>1, <1>2 DEF Init
<1>5. QED
  BY <1>3, <1>4 DEF TypeOK

\* A request steps to a place.
LEMMA GotoType ==
    ASSUME TypeOK, NEW w \in Workers, NEW from, NEW to \in Steps, Goto(w, from, to)
    PROVE  pc' \in [Workers -> Steps]
BY DEF Goto, TypeOK

\* The entry a request writes.
LEMMA EntryType ==
    ASSUME SqlStoreAssumption, TypeOK, NEW w \in Workers, NEW st \in ApprovalStatus
    PROVE  /\ EntryOf(w, st, task[w].by) \in Entry
           /\ EntryOf(w, st, System) \in Entry
<1>1. task[w].by \in Approvers \cup {Requester} /\ at[w] \in Nat
  BY DEF TypeOK, SqlStoreAssumption
<1>2. QED
  BY <1>1 DEF EntryOf, Entry

\* The event of create() is one.
LEMMA RequestedType == Requested \in Entry
BY DEF Requested, Entry, ApprovalStatus

\* A record that is put together from fields of the right kind.
LEMMA NewRow ==
    ASSUME NEW st \in ApprovalStatus, NEW v \in Nat,
           NEW a \in Approvers \cup {Nobody}, NEW j \in Approvers \cup {Nobody}
    PROVE  LET c == [status |-> st, approvedBy |-> a, rejectedBy |-> j, version |-> v]
           IN  c \in Row /\ c.status = st /\ c.version = v
BY DEF Row

\* The fields of a record, and that they make it up.
LEMMA RowFields ==
    ASSUME NEW r \in Row
    PROVE  /\ r.approvedBy \in Approvers \cup {Nobody} /\ r.rejectedBy \in Approvers \cup {Nobody}
           /\ r.version \in Nat
           /\ r = [status |-> r.status, approvedBy |-> r.approvedBy,
                   rejectedBy |-> r.rejectedBy, version |-> r.version]
BY DEF Row

\* The updates of a record that Changed is written with, spelled out.
LEMMA Spelled ==
    ASSUME NEW r \in Row, NEW st, NEW v, NEW p
    PROVE  LET moved == [r EXCEPT !.status = st, !.version = v]
               spelled(a, j) == [status |-> st, approvedBy |-> a, rejectedBy |-> j,
                                 version |-> v]
           IN  /\ moved = spelled(r.approvedBy, r.rejectedBy)
               /\ [moved EXCEPT !.approvedBy = p] = spelled(p, r.rejectedBy)
               /\ [moved EXCEPT !.rejectedBy = p] = spelled(r.approvedBy, p)
<1> DEFINE moved == [r EXCEPT !.status = st, !.version = v]
           spelled(a, j) == [status |-> st, approvedBy |-> a, rejectedBy |-> j,
                             version |-> v]
           old == [status |-> r.status, approvedBy |-> r.approvedBy,
                   rejectedBy |-> r.rejectedBy, version |-> r.version]
<1>1. moved = spelled(r.approvedBy, r.rejectedBy)
  <2>1. r = old
    BY RowFields
  <2>2. [r EXCEPT !.status = st] = [status |-> st, approvedBy |-> r.approvedBy,
                                    rejectedBy |-> r.rejectedBy, version |-> r.version]
    <3>1. [r EXCEPT !.status = st] = [old EXCEPT !.status = st]
      BY <2>1, Zenon
    <3>2. QED
      BY <3>1
  <2>3. moved = [[r EXCEPT !.status = st] EXCEPT !.version = v]
    OBVIOUS
  <2>4. \A x : [[status |-> st, approvedBy |-> r.approvedBy, rejectedBy |-> r.rejectedBy,
                 version |-> r.version] EXCEPT !.version = x]
              = [status |-> st, approvedBy |-> r.approvedBy, rejectedBy |-> r.rejectedBy,
                 version |-> x]
    OBVIOUS
  <2>5. [[r EXCEPT !.status = st] EXCEPT !.version = v]
          = [[status |-> st, approvedBy |-> r.approvedBy, rejectedBy |-> r.rejectedBy,
              version |-> r.version] EXCEPT !.version = v]
    BY <2>2, Zenon
  <2>6. QED
    BY <2>3, <2>4, <2>5
<1>2. [spelled(r.approvedBy, r.rejectedBy) EXCEPT !.approvedBy = p] = spelled(p, r.rejectedBy)
  OBVIOUS
<1>3. [spelled(r.approvedBy, r.rejectedBy) EXCEPT !.rejectedBy = p] = spelled(r.approvedBy, p)
  OBVIOUS
<1>4. QED
  BY <1>1, <1>2, <1>3

\* What a request makes of a record is a record, and names only its own outcome.
LEMMA ChangedFacts ==
    ASSUME SqlStoreAssumption, TypeOK, NEW w \in Workers, NEW r \in Row
    PROVE  /\ Changed(w, r) \in Row
           /\ Changed(w, r).version \in {r.version, r.version + 1}
           /\ Changed(w, r) # r =>
                /\ Changed(w, r).status \in ApprovalStatus \ {"PENDING"}
                /\ Changed(w, r).status = "APPROVED" => task[w].kind = "approve"
                /\ Changed(w, r).status \in {"APPROVED", "REJECTED"} =>
                     task[w].kind \in {"approve", "reject"} /\ r.status = "PENDING"
<1> DEFINE made(st, a, j) == [status |-> st, approvedBy |-> a, rejectedBy |-> j,
                              version |-> r.version + 1]
           kind == task[w].kind
           good(c) == /\ c \in Row
                      /\ c.version \in {r.version, r.version + 1}
                      /\ c # r => /\ c.status \in ApprovalStatus \ {"PENDING"}
                                  /\ c.status = "APPROVED" => kind = "approve"
                                  /\ c.status \in {"APPROVED", "REJECTED"} =>
                                       kind \in {"approve", "reject"} /\ r.status = "PENDING"
<1>0. task[w] \in Tasks /\ kind \in Kinds
  BY DEF TypeOK, SqlStoreAssumption
<1>1. {"APPROVED", "REJECTED", "EXECUTED", "FAILED"} \subseteq ApprovalStatus \ {"PENDING"}
  BY DEF ApprovalStatus
<1>2. \A st \in ApprovalStatus, a \in Approvers \cup {Nobody}, j \in Approvers \cup {Nobody} :
        made(st, a, j) \in Row /\ made(st, a, j).status = st
          /\ made(st, a, j).version = r.version + 1
  <2>1. r.version + 1 \in Nat
    BY RowFields
  <2>2. QED
    BY <2>1, NewRow
<1>3. CASE kind = "approve" /\ r.status = "PENDING"
  <2>1. task[w].by \in Approvers
    BY <1>0, <1>3 DEF SqlStoreAssumption
  <2>2. Changed(w, r) = made("APPROVED", task[w].by, r.rejectedBy)
    <3>1. Changed(w, r) = [[r EXCEPT !.status = "APPROVED", !.version = @ + 1]
                             EXCEPT !.approvedBy = task[w].by]
      BY <1>3 DEF Changed
    <3>2. QED
      BY <3>1, Spelled
  <2>3. good(made("APPROVED", task[w].by, r.rejectedBy))
    BY <1>1, <1>2, <1>3, <2>1, RowFields
  <2>4. QED
    BY <2>2, <2>3
<1>4. CASE kind = "reject" /\ r.status = "PENDING"
  <2>1. task[w].by \in Approvers
    BY <1>0, <1>4 DEF SqlStoreAssumption
  <2>2. Changed(w, r) = made("REJECTED", r.approvedBy, task[w].by)
    <3>1. Changed(w, r) = [[r EXCEPT !.status = "REJECTED", !.version = @ + 1]
                             EXCEPT !.rejectedBy = task[w].by]
      BY <1>4 DEF Changed
    <3>2. QED
      BY <3>1, Spelled
  <2>3. good(made("REJECTED", r.approvedBy, task[w].by))
    BY <1>1, <1>2, <1>4, <2>1, RowFields
  <2>4. QED
    BY <2>2, <2>3
<1>5. CASE kind = "execute" /\ ran[w] = "ok" /\ r.status = "APPROVED"
  <2>1. Changed(w, r) = made("EXECUTED", r.approvedBy, r.rejectedBy)
    <3>1. Changed(w, r) = [r EXCEPT !.status = "EXECUTED", !.version = @ + 1]
      BY <1>5 DEF Changed
    <3>2. QED
      BY <3>1, Spelled
  <2>2. good(made("EXECUTED", r.approvedBy, r.rejectedBy))
    BY <1>1, <1>2, RowFields
  <2>3. QED
    BY <2>1, <2>2
<1>6. CASE kind = "execute" /\ ran[w] = "error" /\ r.status \in {"APPROVED", "PENDING"}
  <2>1. Changed(w, r) = made("FAILED", r.approvedBy, r.rejectedBy)
    <3>1. Changed(w, r) = [r EXCEPT !.status = "FAILED", !.version = @ + 1]
      BY <1>6 DEF Changed
    <3>2. QED
      BY <3>1, Spelled
  <2>2. good(made("FAILED", r.approvedBy, r.rejectedBy))
    BY <1>1, <1>2, RowFields
  <2>3. QED
    BY <2>1, <2>2
<1>7. CASE /\ ~(kind = "approve" /\ r.status = "PENDING")
           /\ ~(kind = "reject" /\ r.status = "PENDING")
           /\ ~(kind = "execute" /\ ran[w] = "ok" /\ r.status = "APPROVED")
           /\ ~(kind = "execute" /\ ran[w] = "error" /\ r.status \in {"APPROVED", "PENDING"})
  <2>1. Changed(w, r) = r
    BY <1>7 DEF Changed
  <2>2. QED
    BY <2>1
<1>8. QED
  BY <1>3, <1>4, <1>5, <1>6, <1>7

\* What create() writes.
LEMMA RequestedEntry == SqlStoreAssumption => NoRow \in Row /\ Requested \in Entry
BY RequestedType DEF NoRow, Row

\* Every step keeps the types, provided that copies about to be saved fit their requests.
LEMMA TypeStep ==
    ASSUME SqlStoreAssumption, TypeOK, \A w \in Workers : RequestFits(w), [Next]_vars
    PROVE  TypeOK'
<1> USE SqlStoreAssumption
<1>1. CASE Create
  <2>1. row' \in Row
    <3>1. "PENDING" \in ApprovalStatus /\ Nobody \in Approvers \cup {Nobody} /\ 1 \in Nat
      BY DEF ApprovalStatus
    <3>2. row' = [NoRow EXCEPT !.status = "PENDING", !.version = 1]
      BY <1>1 DEF Create
    <3>3. row' = [status |-> "PENDING", approvedBy |-> Nobody, rejectedBy |-> Nobody,
                  version |-> 1]
      BY <3>2 DEF NoRow
    <3>4. QED
      BY <3>1, <3>3, NewRow
  <2>2. events' \in Seq(Entry)
    BY <1>1, Appended, RequestedEntry DEF Create, TypeOK
  <2>3. QED
    BY <1>1, <2>1, <2>2 DEF Create, TypeOK
<1>2. CASE AuditRequest
  <2>1. audit' \in Seq(Entry)
    <3>1. audit \in Seq(Entry) /\ Requested \in Entry
      BY RequestedEntry DEF TypeOK
    <3>2. Append(audit, Requested) \in Seq(Entry)
      BY <3>1, Appended
    <3>3. QED
      BY <1>2, <3>1, <3>2 DEF AuditRequest
  <2>2. QED
    BY <1>2, <2>1 DEF AuditRequest, TypeOK
<1>3. ASSUME NEW w \in Workers, Begin(w) PROVE TypeOK'
  <2>1. pc' \in [Workers -> Steps]
    BY <1>3, GotoType DEF Begin, Steps
  <2>2. at' \in [Workers -> Nat]
    BY <1>3 DEF Begin, TypeOK
  <2>3. QED
    BY <1>3, <2>1, <2>2 DEF Begin, TypeOK, dbVars
<1>4. ASSUME NEW w \in Workers, SelectForExpiry(w) PROVE TypeOK'
  <2>1. AfterExpiry(w) \in Steps /\ "expire" \in Steps
    BY DEF AfterExpiry, Steps
  <2>2. pc' \in [Workers -> Steps]
    BY <1>4, <2>1, GotoType DEF SelectForExpiry
  <2>3. at' \in [Workers -> Nat]
    BY <1>4 DEF SelectForExpiry, TypeOK
  <2>4. base' \in [Workers -> Row]
    BY <1>4 DEF SelectForExpiry, TypeOK
  <2>5. QED
    BY <1>4, <2>2, <2>3, <2>4 DEF SelectForExpiry, TypeOK, dbVars
<1>5. ASSUME NEW w \in Workers, Expire(w) PROVE TypeOK'
  <2>1. pc' \in [Workers -> Steps]
    <3>1. AfterExpiry(w) \in Steps
      BY DEF AfterExpiry, Steps
    <3>2. QED
      BY <1>5, <3>1, GotoType DEF Expire
  <2>2. row' \in Row
    <3>1. "EXPIRED" \in ApprovalStatus /\ base[w].version + 1 \in Nat /\ row \in Row
      BY RowFields DEF ApprovalStatus, TypeOK
    <3>2. row' = [status |-> "EXPIRED", approvedBy |-> row.approvedBy,
                  rejectedBy |-> row.rejectedBy, version |-> base[w].version + 1]
      BY <1>5, <3>1, Spelled DEF Expire
    <3>3. QED
      BY <3>1, <3>2, NewRow, RowFields
  <2>3. events' \in Seq(Entry)
    <3>1. EntryOf(w, "EXPIRED", System) \in Entry
      BY EntryType DEF ApprovalStatus
    <3>2. QED
      BY <1>5, <3>1, Appended DEF Expire, TypeOK
  <2>4. QED
    BY <1>5, <2>1, <2>2, <2>3 DEF Expire, TypeOK
<1>6. ASSUME NEW w \in Workers, Load(w) PROVE TypeOK'
  <2>1. pc' \in [Workers -> Steps]
    <3>1. {"run", "done", "merge"} \subseteq Steps
      BY DEF Steps
    <3>2. PICK to \in Steps : Goto(w, "load", to)
      BY <1>6, <3>1 DEF Load
    <3>3. QED
      BY <3>2, GotoType
  <2>2. copy' \in [Workers -> Row]
    <3>1. row \in Row /\ Changed(w, row) \in Row
      BY ChangedFacts DEF TypeOK
    <3>2. QED
      BY <1>6, <3>1 DEF Load, TypeOK
  <2>3. QED
    BY <1>6, <2>1, <2>2 DEF Load, TypeOK, dbVars
<1>7. ASSUME NEW w \in Workers, RunTool(w) PROVE TypeOK'
  <2>1. pc' \in [Workers -> Steps]
    BY <1>7, GotoType DEF RunTool, Steps
  <2>2. ran' \in [Workers -> {"no", "ok", "error"}] /\ at' \in [Workers -> Nat]
    BY <1>7 DEF RunTool, TypeOK
  <2>3. QED
    BY <1>7, <2>1, <2>2 DEF RunTool, TypeOK, dbVars
<1>8. ASSUME NEW w \in Workers, Merge(w) PROVE TypeOK'
  <2>1. pc' \in [Workers -> Steps]
    BY <1>8, GotoType DEF Merge, Steps
  <2>2. base' \in [Workers -> Row]
    BY <1>8 DEF Merge, TypeOK
  <2>3. QED
    BY <1>8, <2>1, <2>2 DEF Merge, TypeOK, dbVars
<1>9. ASSUME NEW w \in Workers, Flush(w) PROVE TypeOK'
  <2>1. pc' \in [Workers -> Steps]
    BY <1>9, GotoType DEF Flush, Steps
  <2>2. row' \in Row
    <3>1. row \in Row /\ copy[w] \in Row
      BY DEF TypeOK
    <3>2. QED
      BY <1>9, <3>1 DEF Flush, Row
  <2>3. events' \in Seq(Entry)
    <3>1. pc[w] = "flush"
      BY <1>9 DEF Flush, Goto
    <3>2. copy[w].status \in ApprovalStatus
      BY <3>1 DEF RequestFits
    <3>3. EntryOf(w, copy[w].status, task[w].by) \in Entry
      BY <3>2, EntryType
    <3>4. QED
      BY <1>9, <3>3, Appended DEF Flush, TypeOK
  <2>4. QED
    BY <1>9, <2>1, <2>2, <2>3 DEF Flush, TypeOK
<1>10. ASSUME NEW w \in Workers, Audit(w) PROVE TypeOK'
  <2>1. pc' \in [Workers -> Steps]
    BY <1>10, GotoType DEF Audit, Steps
  <2>2. audit' \in Seq(Entry)
    <3>1. pc[w] = "audit"
      BY <1>10 DEF Audit, Goto
    <3>2. copy[w].status \in ApprovalStatus
      BY <3>1 DEF RequestFits
    <3>3. EntryOf(w, copy[w].status, task[w].by) \in Entry
      BY <3>2, EntryType
    <3>4. QED
      BY <1>10, <3>3, Appended DEF Audit, TypeOK
  <2>3. QED
    BY <1>10, <2>1, <2>2 DEF Audit, TypeOK
<1>11. ASSUME NEW w \in Workers, Lose(w) PROVE TypeOK'
  <2>1. pc' \in [Workers -> Steps]
    BY <1>11 DEF Lose, TypeOK, Steps
  <2>2. QED
    BY <1>11, <2>1 DEF Lose, TypeOK, dbVars
<1>12. CASE Tick
  BY <1>12 DEF Tick, TypeOK, dbVars
<1>13. CASE Finished \/ UNCHANGED vars
  BY <1>13 DEF Finished, TypeOK, vars, dbVars
<1>14. QED
  BY <1>1, <1>2, <1>3, <1>4, <1>5, <1>6, <1>7, <1>8, <1>9, <1>10, <1>11, <1>12, <1>13
  DEF Next, Step

-------------------------------------------------------------------------------
(* the rest of the invariant *)

\* Committing an event keeps what the others announced, and announces its status.
LEMMA Grown ==
    ASSUME TypeOK, NEW e \in Entry, events' = Append(events, e)
    PROVE  /\ Len(events') = Len(events) + 1
           /\ ToSet(events') = ToSet(events) \cup {e}
           /\ Announced(e.status)'
           /\ \A st : Announced(st) => Announced(st)'
<1>1. /\ events \in Seq(Entry) /\ Len(events) \in Nat
      /\ Len(events') = Len(events) + 1
      /\ \A i \in 1 .. Len(events) : events'[i] = events[i]
      /\ events'[Len(events) + 1] = e
      /\ ToSet(events') = ToSet(events) \cup {e}
  BY Appended DEF TypeOK
<1>2. Len(events) + 1 \in 1 .. Len(events') /\ 1 .. Len(events) \subseteq 1 .. Len(events')
  BY <1>1
<1>3. Announced(e.status)'
  BY <1>1, <1>2 DEF Announced
<1>4. ASSUME NEW st, Announced(st) PROVE Announced(st)'
  <2>1. PICK i \in 1 .. Len(events) : events[i].status = st
    BY <1>4 DEF Announced
  <2>2. QED
    BY <1>1, <1>2, <2>1 DEF Announced
<1>5. QED
  BY <1>1, <1>3, <1>4

\* A good event keeps the events good.
LEMMA GoodGrown ==
    ASSUME TypeOK, EventsGood, NEW e \in Entry, events' = Append(events, e),
           e.status = "APPROVED" => e.by \in Approvers \ {Requester},
           e.status \in {"APPROVED", "REJECTED"} => e.at < Deadline
    PROVE  EventsGood'
<1>1. /\ events \in Seq(Entry) /\ Len(events) \in Nat
      /\ Len(events') = Len(events) + 1
      /\ \A i \in 1 .. Len(events) : events'[i] = events[i]
      /\ events'[Len(events) + 1] = e
  BY Appended DEF TypeOK
<1>2. \A i \in 1 .. Len(events') : i \in 1 .. Len(events) \/ i = Len(events) + 1
  BY <1>1
<1>3. QED
  BY <1>1, <1>2 DEF EventsGood

\* What a request is good for does not depend on what the others do: they only add
\* events, and never make the row pending again.
LEMMA Bystander ==
    ASSUME NEW v \in Workers, RequestFits(v),
           pc'[v] = pc[v], ran'[v] = ran[v], task' = task, at'[v] = at[v], copy'[v] = copy[v],
           row.status # "PENDING" /\ pc[v] # "idle" => row'.status # "PENDING",
           Announced("APPROVED") => Announced("APPROVED")',
           ToSet(events) \subseteq ToSet(events')
    PROVE  RequestFits(v)'
<1>1. pc'[v] = "run" \/ ran'[v] # "no" => task'[v].kind = "execute" /\ Announced("APPROVED")'
  BY DEF RequestFits
<1>2. pc'[v] = "load" /\ task'[v].kind \in {"approve", "reject"} /\ at'[v] >= Deadline
        => row'.status # "PENDING"
  BY DEF RequestFits
<1>3. pc'[v] \in {"merge", "flush", "audit"} =>
        /\ copy'[v].status \in ApprovalStatus \ {"PENDING"}
        /\ copy'[v].status = "APPROVED" => task'[v].kind = "approve"
        /\ copy'[v].status \in {"APPROVED", "REJECTED"} => at'[v] < Deadline
  BY DEF RequestFits
<1>4. pc'[v] = "audit" => EntryOf(v, copy[v].status, task[v].by)' \in ToSet(events')
  BY DEF RequestFits, EntryOf
<1>5. QED
  BY <1>1, <1>2, <1>3, <1>4 DEF RequestFits

\* The steps that write nothing to the database keep what is said of it.
LEMMA DatabaseKept ==
    ASSUME Begun, EventsGood, StatusAnnounced, AuditCommitted,
           UNCHANGED <<asked, row, events, audit>>, asked = "no" => pc' = pc
    PROVE  Begun' /\ EventsGood' /\ StatusAnnounced' /\ AuditCommitted'
BY DEF Begun, EventsGood, StatusAnnounced, AuditCommitted, Announced

\* The steps of one request leave the others fit.
LEMMA OthersFit ==
    ASSUME NEW w \in Workers, \A v \in Workers : RequestFits(v), task' = task,
           \A v \in Workers \ {w} : /\ pc'[v] = pc[v] /\ ran'[v] = ran[v]
                                    /\ at'[v] = at[v] /\ copy'[v] = copy[v],
           row.status # "PENDING" => row'.status # "PENDING",
           Announced("APPROVED") => Announced("APPROVED")',
           ToSet(events) \subseteq ToSet(events')
    PROVE  \A v \in Workers \ {w} : RequestFits(v)'
<1> SUFFICES ASSUME NEW v \in Workers \ {w} PROVE RequestFits(v)'
  OBVIOUS
<1>1. /\ pc'[v] = pc[v] /\ ran'[v] = ran[v] /\ at'[v] = at[v] /\ copy'[v] = copy[v]
      /\ RequestFits(v)
  OBVIOUS
<1>2. QED
  BY <1>1, Bystander

\* The same for a step that writes nothing.
LEMMA OthersFitQuietly ==
    ASSUME NEW w \in Workers, \A v \in Workers : RequestFits(v), task' = task,
           \A v \in Workers \ {w} : /\ pc'[v] = pc[v] /\ ran'[v] = ran[v]
                                    /\ at'[v] = at[v] /\ copy'[v] = copy[v],
           row' = row, events' = events
    PROVE  \A v \in Workers \ {w} : RequestFits(v)'
<1>1. Announced("APPROVED") => Announced("APPROVED")'
  BY DEF Announced
<1>2. ToSet(events) \subseteq ToSet(events')
  OBVIOUS
<1>3. QED
  BY <1>1, <1>2, OthersFit

\* The conjuncts of SqlInv other than the types.
Rest == /\ Begun /\ VersionsFollow /\ EventsGood /\ StatusAnnounced /\ AuditCommitted
        /\ \A v \in Workers : RequestFits(v)

\* A request that is under way was made after the approval was asked for.
LEMMA Underway ==
    ASSUME Begun, TypeOK, NEW w \in Workers, pc[w] # "idle"
    PROVE  asked # "no" /\ row.status # "NONE"
BY DEF Begun

\* A request arrives.
LEMMA BeginStep ==
    ASSUME TypeOK, Rest, NEW w \in Workers, Begin(w)
    PROVE  Rest'
<1>1. Begun' /\ EventsGood' /\ StatusAnnounced' /\ AuditCommitted'
  BY DatabaseKept DEF Rest, Begin, dbVars
<1>2. VersionsFollow'
  BY DEF Rest, VersionsFollow, Begin, dbVars
<1>3. RequestFits(w)'
  <2>1. pc'[w] = "select" /\ ran' = ran /\ task' = task /\ events' = events
    BY DEF Begin, Goto, TypeOK, dbVars
  <2>2. RequestFits(w)
    BY DEF Rest
  <2>3. QED
    BY <2>1, <2>2 DEF RequestFits, Announced
<1>4. \A v \in Workers \ {w} : RequestFits(v)'
  <2>1. \A v \in Workers \ {w} : /\ pc'[v] = pc[v] /\ ran'[v] = ran[v]
                                 /\ at'[v] = at[v] /\ copy'[v] = copy[v]
    BY DEF Begin, Goto, TypeOK
  <2>2. task' = task /\ row' = row /\ events' = events
    BY DEF Begin, dbVars
  <2>3. QED
    BY <2>1, <2>2, OthersFitQuietly DEF Rest
<1>5. QED
  BY <1>1, <1>2, <1>3, <1>4 DEF Rest

\* A request looks whether the row is overdue.
LEMMA SelectStep ==
    ASSUME SqlStoreAssumption, TypeOK, Rest, NEW w \in Workers, SelectForExpiry(w)
    PROVE  Rest'
<1>1. pc[w] = "select" /\ asked # "no"
  BY Underway DEF SelectForExpiry, Goto, Rest
<1>2. Begun' /\ EventsGood' /\ StatusAnnounced' /\ AuditCommitted'
  BY <1>1, DatabaseKept DEF Rest, SelectForExpiry, dbVars
<1>3. VersionsFollow'
  <2>1. base' = [base EXCEPT ![w] = row] /\ copy' = copy /\ row' = row /\ events' = events
    BY DEF SelectForExpiry, dbVars
  <2>2. QED
    BY <2>1 DEF Rest, VersionsFollow, TypeOK
<1>4. RequestFits(w)'
  <2>1. /\ pc'[w] \in {"expire", "done", "load"} /\ ran' = ran /\ task' = task
        /\ events' = events /\ row' = row
    BY DEF SelectForExpiry, Goto, TypeOK, dbVars, AfterExpiry
  <2>2. pc'[w] = "load" /\ at'[w] >= Deadline => row.status # "PENDING"
    BY DEF SelectForExpiry, Goto, TypeOK, Overdue
  <2>3. RequestFits(w)
    BY DEF Rest
  <2>4. QED
    BY <2>1, <2>2, <2>3 DEF RequestFits, Announced
<1>5. \A v \in Workers \ {w} : RequestFits(v)'
  <2>1. \A v \in Workers \ {w} : /\ pc'[v] = pc[v] /\ ran'[v] = ran[v]
                                 /\ at'[v] = at[v] /\ copy'[v] = copy[v]
    BY DEF SelectForExpiry, Goto, TypeOK
  <2>2. task' = task /\ row' = row /\ events' = events
    BY DEF SelectForExpiry, dbVars
  <2>3. QED
    BY <2>1, <2>2, OthersFitQuietly DEF Rest
<1>6. QED
  BY <1>2, <1>3, <1>4, <1>5 DEF Rest

\* An expiry is committed.
LEMMA ExpireStep ==
    ASSUME SqlStoreAssumption, TypeOK, Rest, NEW w \in Workers, Expire(w)
    PROVE  Rest'
<1> DEFINE e == EntryOf(w, "EXPIRED", System)
<1>1. pc[w] = "expire" /\ asked # "no" /\ row \in Row /\ base[w] \in Row
  BY Underway DEF Expire, Goto, Rest, TypeOK
<1>2. e \in Entry /\ e.status = "EXPIRED" /\ events' = Append(events, e)
  BY EntryType DEF Expire, ApprovalStatus, EntryOf
<1>3. row'.status = "EXPIRED" /\ row'.version = base[w].version + 1
  <2>1. row' = [status |-> "EXPIRED", approvedBy |-> row.approvedBy,
                rejectedBy |-> row.rejectedBy, version |-> base[w].version + 1]
    <3>1. base[w].version + 1 \in Nat /\ row \in Row
      BY <1>1, RowFields
    <3>2. QED
      BY <3>1, Spelled DEF Expire
  <2>2. QED
    BY <2>1
<1>4. /\ asked' = asked /\ audit' = audit /\ ran' = ran /\ task' = task
      /\ copy' = copy /\ base' = base /\ at' = at
  BY DEF Expire
<1>5. /\ Len(events') = Len(events) + 1 /\ Len(events) \in Nat
      /\ ToSet(events) \subseteq ToSet(events')
      /\ Announced("EXPIRED")'
      /\ \A st : Announced(st) => Announced(st)'
  BY <1>2, Grown DEF TypeOK
<1>6. Begun'
  BY <1>1, <1>3, <1>4, <1>5 DEF Rest, Begun
<1>7. VersionsFollow'
  <2>1. base[w].version <= Len(events) /\ base[w].version \in Nat
    BY <1>1, RowFields DEF Rest, VersionsFollow
  <2>2. \A v \in Workers : base[v].version \in Nat /\ copy[v].version \in Nat
    BY RowFields DEF TypeOK
  <2>3. QED
    BY <1>3, <1>4, <1>5, <2>1, <2>2 DEF Rest, VersionsFollow
<1>8. EventsGood'
  BY <1>2, GoodGrown DEF Rest
<1>9. StatusAnnounced' /\ AuditCommitted'
  BY <1>3, <1>4, <1>5 DEF Rest, StatusAnnounced, AuditCommitted
<1>10. RequestFits(w)'
  <2>1. pc'[w] \in {"done", "load"}
    BY DEF Expire, Goto, TypeOK, AfterExpiry
  <2>2. RequestFits(w)
    BY DEF Rest
  <2>3. QED
    BY <1>3, <1>4, <1>5, <2>1, <2>2 DEF RequestFits
<1>11. \A v \in Workers \ {w} : RequestFits(v)'
  <2>1. \A v \in Workers \ {w} : /\ pc'[v] = pc[v] /\ ran'[v] = ran[v]
                                 /\ at'[v] = at[v] /\ copy'[v] = copy[v]
    BY <1>4 DEF Expire, Goto, TypeOK
  <2>2. QED
    BY <1>3, <1>4, <1>5, <2>1, OthersFit DEF Rest
<1>12. QED
  BY <1>6, <1>7, <1>8, <1>9, <1>10, <1>11 DEF Rest

\* A request loads the record and decides what to make of it.
LEMMA LoadStep ==
    ASSUME SqlStoreAssumption, TypeOK, Rest, NEW w \in Workers, Load(w)
    PROVE  Rest'
<1>1. pc[w] = "load" /\ asked # "no" /\ row \in Row /\ row.status # "NONE"
  BY Underway DEF Load, Goto, Rest, TypeOK
<1>2. /\ asked' = asked /\ UNCHANGED <<row, events, audit>> /\ ran' = ran /\ task' = task
      /\ base' = base /\ at' = at
  BY DEF Load, dbVars
<1>3. Begun' /\ EventsGood' /\ StatusAnnounced' /\ AuditCommitted'
  BY <1>1, <1>2, DatabaseKept DEF Rest
<1>4. VersionsFollow'
  <2>1. Len(events) \in Nat /\ row.version \in Nat /\ row.version <= Len(events)
    BY <1>1, RowFields DEF TypeOK, Rest, VersionsFollow
  <2>2. row.version <= Len(events) + 1 /\ Changed(w, row).version <= Len(events) + 1
    BY <1>1, <2>1, ChangedFacts
  <2>3. \E c : copy' = [copy EXCEPT ![w] = c] /\ c.version <= Len(events) + 1
    BY <2>2 DEF Load
  <2>4. QED
    BY <1>2, <2>3 DEF Rest, VersionsFollow, TypeOK
<1>5. RequestFits(w)'
  <2>0. RequestFits(w)
    BY DEF Rest
  <2>1. CASE task[w].kind = "execute" /\ ran[w] = "no"
    <3>1. pc'[w] \in {"run", "done"} /\ (pc'[w] = "run" => row.status = "APPROVED")
      BY <2>1 DEF Load, Goto, TypeOK, MayRun
    <3>2. pc'[w] = "run" => Announced("APPROVED")
      BY <3>1 DEF Rest, StatusAnnounced
    <3>3. QED
      BY <1>2, <2>0, <2>1, <3>1, <3>2 DEF RequestFits, Announced
  <2>2. CASE task[w].kind # "execute" \/ ran[w] # "no"
    <3>1. copy'[w] = Changed(w, row) /\ pc'[w] = (IF copy'[w] = row THEN "done" ELSE "merge")
      BY <2>2 DEF Load, Goto, TypeOK
    <3>2. pc'[w] \in {"done", "merge"}
      BY <3>1
    <3>3. pc'[w] = "merge" =>
            /\ copy'[w].status \in ApprovalStatus \ {"PENDING"}
            /\ copy'[w].status = "APPROVED" => task[w].kind = "approve"
            /\ copy'[w].status \in {"APPROVED", "REJECTED"} =>
                 task[w].kind \in {"approve", "reject"} /\ row.status = "PENDING"
      BY <1>1, <3>1, ChangedFacts
    <3>4. at[w] \in Nat /\ Deadline \in Nat
      BY DEF TypeOK, SqlStoreAssumption
    <3>5. pc'[w] = "merge" /\ copy'[w].status \in {"APPROVED", "REJECTED"} => at[w] < Deadline
      BY <1>1, <2>0, <3>3, <3>4 DEF RequestFits
    <3>6. ran[w] # "no" => task[w].kind = "execute" /\ Announced("APPROVED")
      BY <2>0 DEF RequestFits
    <3>7. QED
      BY <1>2, <3>2, <3>3, <3>5, <3>6 DEF RequestFits, Announced
  <2>3. QED
    BY <2>1, <2>2
<1>6. \A v \in Workers \ {w} : RequestFits(v)'
  <2>1. \A v \in Workers \ {w} : /\ pc'[v] = pc[v] /\ ran'[v] = ran[v]
                                 /\ at'[v] = at[v] /\ copy'[v] = copy[v]
    BY <1>2 DEF Load, Goto, TypeOK
  <2>2. QED
    BY <1>2, <2>1, OthersFitQuietly DEF Rest
<1>7. QED
  BY <1>3, <1>4, <1>5, <1>6 DEF Rest

\* The tool of a request has run.
LEMMA RunStep ==
    ASSUME SqlStoreAssumption, TypeOK, Rest, NEW w \in Workers, RunTool(w)
    PROVE  Rest'
<1>1. pc[w] = "run" /\ asked # "no"
  BY Underway DEF RunTool, Goto, Rest
<1>2. /\ asked' = asked /\ UNCHANGED <<row, events, audit>> /\ task' = task
      /\ base' = base /\ copy' = copy
  BY DEF RunTool, dbVars
<1>3. Begun' /\ EventsGood' /\ StatusAnnounced' /\ AuditCommitted'
  BY <1>1, <1>2, DatabaseKept DEF Rest
<1>4. VersionsFollow'
  BY <1>2 DEF Rest, VersionsFollow
<1>5. RequestFits(w)'
  <2>1. pc'[w] \in {"select", "load"}
    BY DEF RunTool, Goto, TypeOK
  <2>2. task[w].kind = "execute" /\ Announced("APPROVED")
    BY <1>1 DEF Rest, RequestFits
  <2>3. QED
    BY <1>2, <2>1, <2>2 DEF RequestFits, Announced
<1>6. \A v \in Workers \ {w} : RequestFits(v)'
  <2>1. \A v \in Workers \ {w} : /\ pc'[v] = pc[v] /\ ran'[v] = ran[v]
                                 /\ at'[v] = at[v] /\ copy'[v] = copy[v]
    BY <1>2 DEF RunTool, Goto, TypeOK
  <2>2. QED
    BY <1>2, <2>1, OthersFitQuietly DEF Rest
<1>7. QED
  BY <1>3, <1>4, <1>5, <1>6 DEF Rest

\* A request selects the row it is about to update.
LEMMA MergeStep ==
    ASSUME SqlStoreAssumption, TypeOK, Rest, NEW w \in Workers, Merge(w)
    PROVE  Rest'
<1>1. pc[w] = "merge" /\ asked # "no"
  BY Underway DEF Merge, Goto, Rest
<1>2. /\ asked' = asked /\ UNCHANGED <<row, events, audit>> /\ ran' = ran /\ task' = task
      /\ copy' = copy /\ at' = at /\ base' = [base EXCEPT ![w] = row]
  BY DEF Merge, dbVars
<1>3. Begun' /\ EventsGood' /\ StatusAnnounced' /\ AuditCommitted'
  BY <1>1, <1>2, DatabaseKept DEF Rest
<1>4. VersionsFollow'
  BY <1>2 DEF Rest, VersionsFollow, TypeOK
<1>5. RequestFits(w)'
  <2>1. pc'[w] = "flush"
    BY DEF Merge, Goto, TypeOK
  <2>2. RequestFits(w)
    BY DEF Rest
  <2>3. QED
    BY <1>1, <1>2, <2>1, <2>2 DEF RequestFits, Announced
<1>6. \A v \in Workers \ {w} : RequestFits(v)'
  <2>1. \A v \in Workers \ {w} : /\ pc'[v] = pc[v] /\ ran'[v] = ran[v]
                                 /\ at'[v] = at[v] /\ copy'[v] = copy[v]
    BY <1>2 DEF Merge, Goto, TypeOK
  <2>2. QED
    BY <1>2, <2>1, OthersFitQuietly DEF Rest
<1>7. QED
  BY <1>3, <1>4, <1>5, <1>6 DEF Rest

\* An update and its event are committed.
LEMMA FlushStep ==
    ASSUME SqlStoreAssumption, TypeOK, Rest, NEW w \in Workers, Flush(w)
    PROVE  Rest'
<1> DEFINE e == EntryOf(w, copy[w].status, task[w].by)
<1>1. pc[w] = "flush" /\ asked # "no" /\ row.status # "NONE"
  BY Underway DEF Flush, Goto, Rest
<1>2. /\ copy[w].status \in ApprovalStatus \ {"PENDING"}
      /\ copy[w].status = "APPROVED" => task[w].kind = "approve"
      /\ copy[w].status \in {"APPROVED", "REJECTED"} => at[w] < Deadline
  BY <1>1 DEF Rest, RequestFits
<1>3. e \in Entry
  BY <1>2, EntryType
<1>4. e.status = copy[w].status /\ e.by = task[w].by /\ e.at = at[w]
  BY DEF EntryOf
<1>5. events' = Append(events, e)
  BY DEF Flush
<1>6. /\ row'.status \in {row.status, copy[w].status}
      /\ row'.version \in {row.version, copy[w].version}
  BY DEF Flush
<1>7. /\ asked' = asked /\ audit' = audit /\ ran' = ran /\ task' = task
      /\ copy' = copy /\ base' = base /\ at' = at
  BY DEF Flush
<1>8. /\ Len(events') = Len(events) + 1 /\ Len(events) \in Nat
      /\ ToSet(events') = ToSet(events) \cup {e}
      /\ \A st : Announced(st) \/ st = e.status => Announced(st)'
  BY <1>3, <1>5, Grown DEF TypeOK
<1>9. Begun'
  <2>1. row'.status # "NONE"
    BY <1>1, <1>2, <1>6 DEF ApprovalStatus
  <2>2. QED
    BY <1>1, <1>7, <1>8, <2>1 DEF Rest, Begun
<1>10. VersionsFollow'
  <2>1. \A v \in Workers : base[v].version \in Nat /\ copy[v].version \in Nat
    BY RowFields DEF TypeOK
  <2>2. row.version \in Nat
    BY RowFields DEF TypeOK
  <2>3. QED
    BY <1>6, <1>7, <1>8, <2>1, <2>2 DEF Rest, VersionsFollow
<1>11. EventsGood'
  <2>1. e.status = "APPROVED" => e.by \in Approvers \ {Requester}
    BY <1>2, <1>4 DEF TypeOK, SqlStoreAssumption
  <2>2. e.status \in {"APPROVED", "REJECTED"} => e.at < Deadline
    BY <1>2, <1>4
  <2>3. QED
    BY <1>3, <1>5, <2>1, <2>2, GoodGrown DEF Rest
<1>12. StatusAnnounced' /\ AuditCommitted'
  <2>1. Announced(row.status)
    BY <1>1 DEF Rest, StatusAnnounced
  <2>2. StatusAnnounced'
    BY <1>4, <1>6, <1>8, <2>1 DEF StatusAnnounced, Announced
  <2>3. AuditCommitted'
    BY <1>7, <1>8 DEF Rest, AuditCommitted
  <2>4. QED
    BY <2>2, <2>3
<1>13. RequestFits(w)'
  <2>1. pc'[w] = "audit"
    BY DEF Flush, Goto, TypeOK
  <2>2. ran[w] # "no" => task[w].kind = "execute" /\ Announced("APPROVED")
    BY DEF Rest, RequestFits
  <2>3. EntryOf(w, copy[w].status, task[w].by)' \in ToSet(events')
    BY <1>7, <1>8 DEF EntryOf
  <2>4. QED
    BY <1>2, <1>7, <1>8, <2>1, <2>2, <2>3 DEF RequestFits
<1>14. \A v \in Workers \ {w} : RequestFits(v)'
  <2>1. \A v \in Workers \ {w} : /\ pc'[v] = pc[v] /\ ran'[v] = ran[v]
                                 /\ at'[v] = at[v] /\ copy'[v] = copy[v]
    BY <1>7 DEF Flush, Goto, TypeOK
  <2>2. row.status # "PENDING" => row'.status # "PENDING"
    BY <1>2, <1>6
  <2>3. QED
    BY <1>7, <1>8, <2>1, <2>2, OthersFit DEF Rest
<1>15. QED
  BY <1>9, <1>10, <1>11, <1>12, <1>13, <1>14 DEF Rest

\* A transition is audited.
LEMMA AuditStep ==
    ASSUME SqlStoreAssumption, TypeOK, Rest, NEW w \in Workers, Audit(w)
    PROVE  Rest'
<1> DEFINE e == EntryOf(w, copy[w].status, task[w].by)
<1>1. pc[w] = "audit" /\ asked # "no"
  BY Underway DEF Audit, Goto, Rest
<1>2. /\ asked' = asked /\ UNCHANGED <<row, events>> /\ ran' = ran /\ task' = task
      /\ copy' = copy /\ base' = base /\ at' = at /\ audit' = Append(audit, e)
  BY DEF Audit
<1>3. Begun' /\ EventsGood' /\ StatusAnnounced'
  BY <1>1, <1>2 DEF Rest, Begun, EventsGood, StatusAnnounced, Announced
<1>4. VersionsFollow'
  BY <1>2 DEF Rest, VersionsFollow
<1>5. AuditCommitted'
  <2>1. e \in ToSet(events) /\ copy[w].status \in ApprovalStatus
    BY <1>1 DEF Rest, RequestFits
  <2>2. e \in Entry /\ audit \in Seq(Entry)
    BY <2>1, EntryType DEF TypeOK
  <2>3. /\ Len(audit') = Len(audit) + 1 /\ Len(audit) \in Nat
        /\ \A i \in 1 .. Len(audit) : audit'[i] = audit[i]
        /\ audit'[Len(audit) + 1] = e
    BY <1>2, <2>2, Appended
  <2>4. \A i \in 1 .. Len(audit') : i \in 1 .. Len(audit) \/ i = Len(audit) + 1
    BY <2>3
  <2>5. \A i \in 1 .. Len(audit) : audit[i] \in ToSet(events)
    BY DEF Rest, AuditCommitted
  <2>6. \A i \in 1 .. Len(audit') : audit'[i] \in ToSet(events)
    BY <2>1, <2>3, <2>4, <2>5
  <2>7. QED
    BY <1>2, <2>6 DEF AuditCommitted
<1>6. RequestFits(w)'
  <2>1. pc'[w] = "done"
    BY DEF Audit, Goto, TypeOK
  <2>2. RequestFits(w)
    BY DEF Rest
  <2>3. QED
    BY <1>2, <2>1, <2>2 DEF RequestFits, Announced
<1>7. \A v \in Workers \ {w} : RequestFits(v)'
  <2>1. \A v \in Workers \ {w} : /\ pc'[v] = pc[v] /\ ran'[v] = ran[v]
                                 /\ at'[v] = at[v] /\ copy'[v] = copy[v]
    BY <1>2 DEF Audit, Goto, TypeOK
  <2>2. QED
    BY <1>2, <2>1, OthersFitQuietly DEF Rest
<1>8. QED
  BY <1>3, <1>4, <1>5, <1>6, <1>7 DEF Rest

\* A request dies.
LEMMA LoseStep ==
    ASSUME SqlStoreAssumption, TypeOK, Rest, NEW w \in Workers, Lose(w)
    PROVE  Rest'
<1>1. pc[w] # "idle" /\ asked # "no" /\ pc' = [pc EXCEPT ![w] = "lost"]
  BY Underway DEF Lose, Rest
<1>2. /\ asked' = asked /\ UNCHANGED <<row, events, audit>> /\ ran' = ran /\ task' = task
      /\ copy' = copy /\ base' = base /\ at' = at
  BY DEF Lose, dbVars
<1>3. Begun' /\ EventsGood' /\ StatusAnnounced' /\ AuditCommitted'
  BY <1>1, <1>2, DatabaseKept DEF Rest
<1>4. VersionsFollow'
  BY <1>2 DEF Rest, VersionsFollow
<1>5. RequestFits(w)'
  <2>1. pc'[w] = "lost"
    BY <1>1 DEF TypeOK
  <2>2. RequestFits(w)
    BY DEF Rest
  <2>3. QED
    BY <1>2, <2>1, <2>2 DEF RequestFits, Announced
<1>6. \A v \in Workers \ {w} : RequestFits(v)'
  <2>1. \A v \in Workers \ {w} : /\ pc'[v] = pc[v] /\ ran'[v] = ran[v]
                                 /\ at'[v] = at[v] /\ copy'[v] = copy[v]
    BY <1>1, <1>2 DEF TypeOK
  <2>2. QED
    BY <1>2, <2>1, OthersFitQuietly DEF Rest
<1>7. QED
  BY <1>3, <1>4, <1>5, <1>6 DEF Rest

\* The approval is asked for.
LEMMA CreateStep ==
    ASSUME SqlStoreAssumption, TypeOK, Rest, Create
    PROVE  Rest'
<1>1. /\ asked = "no" /\ asked' = "saved" /\ events' = Append(events, Requested)
      /\ audit' = audit /\ ran' = ran /\ task' = task /\ copy' = copy /\ base' = base
      /\ at' = at /\ pc' = pc
  BY DEF Create
<1>2. row.status = "NONE" /\ \A w \in Workers : pc[w] = "idle"
  BY <1>1 DEF Rest, Begun
<1>3. row'.status = "PENDING" /\ row'.version = 1
  <2>1. row' = [NoRow EXCEPT !.status = "PENDING", !.version = 1]
    BY DEF Create
  <2>2. QED
    BY <2>1 DEF NoRow
<1>4. /\ Requested \in Entry /\ Requested.status = "PENDING"
      /\ Len(events') = Len(events) + 1 /\ Len(events) \in Nat
      /\ ToSet(events') = ToSet(events) \cup {Requested}
      /\ \A st : Announced(st) \/ st = "PENDING" => Announced(st)'
  <2>1. Requested \in Entry /\ Requested.status = "PENDING"
    BY RequestedEntry DEF Requested
  <2>2. QED
    BY <1>1, <2>1, Grown DEF TypeOK
<1>5. Begun'
  BY <1>1, <1>3, <1>4 DEF Begun
<1>6. VersionsFollow'
  <2>1. \A v \in Workers : base[v].version \in Nat /\ copy[v].version \in Nat
    BY RowFields DEF TypeOK
  <2>2. QED
    BY <1>1, <1>3, <1>4, <2>1 DEF Rest, VersionsFollow
<1>7. EventsGood'
  BY <1>1, <1>4, GoodGrown DEF Rest
<1>8. StatusAnnounced' /\ AuditCommitted'
  BY <1>1, <1>3, <1>4 DEF Rest, StatusAnnounced, AuditCommitted, Announced
<1>9. ASSUME NEW v \in Workers PROVE RequestFits(v)'
  <2>1. RequestFits(v) /\ pc[v] = "idle"
    BY <1>2 DEF Rest
  <2>2. QED
    BY <1>1, <1>4, <2>1, Bystander
<1>10. QED
  BY <1>5, <1>6, <1>7, <1>8, <1>9 DEF Rest

\* Asking for it is audited, or not.
LEMMA AuditRequestStep ==
    ASSUME SqlStoreAssumption, TypeOK, Rest, AuditRequest
    PROVE  Rest'
<1>1. /\ asked = "saved" /\ asked' = "over" /\ row' = row /\ events' = events
      /\ ran' = ran /\ task' = task /\ copy' = copy /\ base' = base /\ at' = at /\ pc' = pc
      /\ audit' = Append(audit, Requested) \/ audit' = audit
  BY DEF AuditRequest
<1>2. Begun' /\ EventsGood' /\ StatusAnnounced' /\ VersionsFollow'
  BY <1>1 DEF Rest, Begun, EventsGood, StatusAnnounced, VersionsFollow, Announced
<1>3. AuditCommitted'
  <2>1. CASE audit' = audit
    BY <1>1, <2>1 DEF Rest, AuditCommitted
  <2>2. CASE audit' = Append(audit, Requested)
    <3>1. Requested \in Entry /\ Requested \in ToSet(events) /\ audit \in Seq(Entry)
      BY <1>1, RequestedEntry DEF Rest, Begun, TypeOK
    <3>2. /\ Len(audit') = Len(audit) + 1 /\ Len(audit) \in Nat
          /\ \A i \in 1 .. Len(audit) : audit'[i] = audit[i]
          /\ audit'[Len(audit) + 1] = Requested
      BY <2>2, <3>1, Appended
    <3>3. \A i \in 1 .. Len(audit') : i \in 1 .. Len(audit) \/ i = Len(audit) + 1
      BY <3>2
    <3>4. \A i \in 1 .. Len(audit) : audit[i] \in ToSet(events)
      BY DEF Rest, AuditCommitted
    <3>5. QED
      BY <1>1, <3>1, <3>2, <3>3, <3>4 DEF AuditCommitted
  <2>3. QED
    BY <1>1, <2>1, <2>2
<1>4. ASSUME NEW v \in Workers PROVE RequestFits(v)'
  <2>1. RequestFits(v)
    BY DEF Rest
  <2>2. QED
    BY <1>1, <2>1 DEF RequestFits, Announced, EntryOf
<1>5. QED
  BY <1>2, <1>3, <1>4 DEF Rest

\* Time passes, or nothing happens.
LEMMA IdleStep ==
    ASSUME TypeOK, Rest, Tick \/ Finished \/ UNCHANGED vars
    PROVE  Rest'
<1>1. /\ asked' = asked /\ row' = row /\ events' = events /\ audit' = audit
      /\ ran' = ran /\ task' = task /\ copy' = copy /\ base' = base /\ at' = at /\ pc' = pc
  BY DEF Tick, Finished, vars, dbVars
<1>2. Begun' /\ EventsGood' /\ StatusAnnounced' /\ AuditCommitted'
  BY <1>1, DatabaseKept DEF Rest
<1>3. VersionsFollow'
  BY <1>1 DEF Rest, VersionsFollow
<1>4. ASSUME NEW v \in Workers PROVE RequestFits(v)'
  <2>1. RequestFits(v)
    BY DEF Rest
  <2>2. QED
    BY <1>1, <2>1 DEF RequestFits, Announced, EntryOf
<1>5. QED
  BY <1>2, <1>3, <1>4 DEF Rest

\* The rest holds before anything happens.
LEMMA RestInit == Init => Rest
<1> SUFFICES ASSUME Init PROVE Rest
  OBVIOUS
<1>1. row.status = "NONE" /\ row.version = 0
  BY DEF Init, NoRow
<1>2. events = << >> /\ audit = << >> /\ asked = "no" /\ Len(events) = 0 /\ Len(audit) = 0
  BY DEF Init
<1>3. \A w \in Workers : /\ pc[w] = "idle" /\ ran[w] = "no"
                         /\ base[w].version = 0 /\ copy[w].version = 0
  BY DEF Init, NoRow
<1>4. Begun /\ VersionsFollow /\ EventsGood /\ StatusAnnounced /\ AuditCommitted
  BY <1>1, <1>2, <1>3 DEF Begun, VersionsFollow, EventsGood, StatusAnnounced, AuditCommitted
<1>5. \A w \in Workers : RequestFits(w)
  BY <1>3 DEF RequestFits
<1>6. QED
  BY <1>4, <1>5 DEF Rest

\* Types, versions, events and requests keep fitting together.
\* (Every method of SqlAlchemyApprovalStore, session by session.)
THEOREM SqlInvariant == ASSUME SqlStoreAssumption PROVE Spec => []SqlInv
<1>1. Init => SqlInv
  BY TypeInit, RestInit DEF SqlInv, Rest
<1>2. SqlInv /\ [Next]_vars => SqlInv'
  <2> SUFFICES ASSUME SqlInv, [Next]_vars PROVE SqlInv'
    OBVIOUS
  <2>1. TypeOK /\ Rest
    BY DEF SqlInv, Rest
  <2>2. TypeOK'
    BY <2>1, SqlStoreAssumption, TypeStep DEF Rest
  <2>3. Rest'
    <3>1. ASSUME NEW w \in Workers, Step(w) PROVE Rest'
      BY <2>1, <3>1, SqlStoreAssumption, BeginStep, SelectStep, ExpireStep, LoadStep, RunStep,
         MergeStep, FlushStep, AuditStep, LoseStep DEF Step
    <3>2. QED
      BY <2>1, <3>1, SqlStoreAssumption, CreateStep, AuditRequestStep, IdleStep DEF Next
  <2>4. QED
    BY <2>2, <2>3 DEF SqlInv, Rest
<1>3. QED
  BY <1>1, <1>2, PTL DEF Spec

\* The row shows no status without an event, its version is not ahead of the events, and
\* the audit trail holds nothing that was not committed.
\* (_save_record, expire_pending, _audit_transition)
THEOREM NothingUnexplained == ASSUME SqlStoreAssumption PROVE Spec => []RecordsExplained
<1>1. SqlInv => RecordsExplained
  BY DEF SqlInv, StatusAnnounced, AuditCommitted, VersionsFollow, Announced, RecordsExplained
<1>2. QED
  BY <1>1, SqlInvariant, SqlStoreAssumption, PTL

\* A tool runs only after another principal's approval in time was committed.
\* (_approval_for_request against the SQL store)
THEOREM ToolsRunGranted == ASSUME SqlStoreAssumption PROVE Spec => []RunsGranted
<1>1. SqlInv => RunsGranted
  <2> SUFFICES ASSUME SqlInv, NEW w \in Workers, pc[w] = "run" \/ ran[w] # "no"
               PROVE  \E i \in 1 .. Len(events) :
                          /\ events[i].status = "APPROVED"
                          /\ events[i].by \in Approvers \ {Requester}
                          /\ events[i].at < Deadline
    BY DEF RunsGranted
  <2>1. Announced("APPROVED")
    BY DEF SqlInv, RequestFits
  <2>2. EventsGood
    BY DEF SqlInv
  <2>3. QED
    BY <2>1, <2>2 DEF Announced, EventsGood
<1>2. QED
  BY <1>1, SqlInvariant, SqlStoreAssumption, PTL

\* No approval or rejection is stamped at or after the deadline.
\* (_transition_pending, which expires the row first)
THEOREM DecisionsInTime == ASSUME SqlStoreAssumption PROVE Spec => []DecidedInTime
<1>1. SqlInv => DecidedInTime
  BY DEF SqlInv, EventsGood, DecidedInTime
<1>2. QED
  BY <1>1, SqlInvariant, SqlStoreAssumption, PTL
===============================================================================
