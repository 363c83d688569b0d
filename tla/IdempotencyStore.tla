-------------------------- MODULE IdempotencyStore --------------------------
(***************************************************************************)
(* The in-memory IdempotencyStore of stores.py.  reserve, mark_running and *)
(* complete each run under the store's lock, so each is one action.  A     *)
(* record is forgotten when reserve() finds it older than the retention    *)
(* time or when it is the oldest of too many; both happen whatever its     *)
(* status, so a key whose operation is still running can be forgotten.     *)
(***************************************************************************)
EXTENDS Naturals, FiniteSets

CONSTANTS
    IdemKeys,       \* pairs (principal_id, idempotency_key)
    Responses,      \* GatewayToolResponse values worth telling apart
    NoResponse,     \* None
    IdemTtl,        \* ttl_seconds
    MaxEntries      \* max_entries

ASSUME IdempotencyStoreAssumption ==
    /\ IdemTtl \in Nat
    /\ MaxEntries \in Nat \ {0}
    /\ NoResponse \notin Responses
    /\ IsFiniteSet(IdemKeys)

VARIABLES
    keys,           \* _keys: key -> IdempotencyRecord, status "ABSENT" when absent
    forgotten       \* history: keys whose record was expired or evicted at least once

idemVars == <<keys, forgotten>>

\* TRANSIENT_FAILED is declared by the enumeration and written by nobody.
TerminalStates == {"SUCCEEDED", "TRANSIENT_FAILED", "PERMANENT_FAILED"}

IdemRecord ==
    [ status    : {"ABSENT", "RESERVED", "RUNNING"} \cup TerminalStates,
      createdAt : Nat,
      response  : Responses \cup {NoResponse} ]

AbsentRecord == [status |-> "ABSENT", createdAt |-> 0, response |-> NoResponse]

Present(ks) == {k \in IdemKeys : ks[k].status # "ABSENT"}

IdemTypeOK ==
    /\ keys \in [IdemKeys -> IdemRecord]
    /\ forgotten \in SUBSET IdemKeys

IdemInit ==
    /\ keys = [k \in IdemKeys |-> AbsentRecord]
    /\ forgotten = {}

----------------------------------------------------------------------------

\* Mutant: the retention time is one unit short.
ExpiredKeysEarly(now) == {k \in Present(keys) : keys[k].createdAt + IdemTtl <= now + 1}

\* _expire: created_at <= now - ttl.
ExpiredKeys(now) == {k \in Present(keys) : keys[k].createdAt + IdemTtl <= now}

\* Mutant: only finished operations block a key.
LiveWhenFinished(k, now) == keys[k].status \in TerminalStates /\ k \notin ExpiredKeys(now)

\* What reserve() finds under the key once the expired records are gone.
Live(k, now) == keys[k].status # "ABSENT" /\ k \notin ExpiredKeys(now)

Replayable(k, now) ==
    /\ Live(k, now)
    /\ keys[k].status \in TerminalStates
    /\ keys[k].response # NoResponse

\* _evict_oldest_if_needed once k was inserted with stamp now into the keys of
\* kept: the oldest entries go until max_entries are left.  min() takes the first
\* of equally old entries in insertion order, and k is the last one inserted; the
\* order of the others is left open.
EvictionSets(kept, k, now) ==
    { out \in SUBSET (kept \cup {k}) :
        /\ Cardinality((kept \cup {k}) \ out) =
              IF Cardinality(kept \cup {k}) > MaxEntries
              THEN MaxEntries ELSE Cardinality(kept \cup {k})
        /\ \A o \in out, i \in (kept \cup {k}) \ out :
              LET stamp(x) == IF x = k THEN now ELSE keys[x].createdAt IN
              IF o = k THEN stamp(o) < stamp(i) ELSE stamp(o) <= stamp(i) }

Forget(gone) == forgotten' = forgotten \cup gone

\* reserve() of a key it does not know: a new RESERVED record.
Reserve(k, now) ==
    /\ ~Live(k, now)
    /\ \E evicted \in EvictionSets(Present(keys) \ (ExpiredKeys(now) \cup {k}), k, now) :
        LET gone == ExpiredKeys(now) \cup evicted IN
        /\ keys' = [x \in IdemKeys |->
                       IF x \in evicted \/ (x \in ExpiredKeys(now) /\ x # k) THEN AbsentRecord
                       ELSE IF x = k
                            THEN [status |-> "RESERVED", createdAt |-> now, response |-> NoResponse]
                            ELSE keys[x]]
        /\ Forget(gone)

\* reserve() of a key it knows: the expired records of other keys go, and the
\* caller gets the stored response or DuplicateOperation.
ReserveKnown(k, now) ==
    /\ Live(k, now)
    /\ keys' = [x \in IdemKeys |-> IF x \in ExpiredKeys(now) THEN AbsentRecord ELSE keys[x]]
    /\ Forget(ExpiredKeys(now))

\* mark_running: nothing happens to a forgotten key.
MarkRunning(k) ==
    /\ keys' = IF keys[k].status = "ABSENT" THEN keys
               ELSE [keys EXCEPT ![k] = [@ EXCEPT !.status = "RUNNING"]]
    /\ UNCHANGED forgotten

\* complete: a forgotten key is stored again, and nothing is evicted for it.
Complete(k, status, response, now) ==
    /\ keys' = [keys EXCEPT ![k] =
                   [ status    |-> status,
                     createdAt |-> IF @.status = "ABSENT" THEN now ELSE @.createdAt,
                     response  |-> response ]]
    /\ UNCHANGED forgotten

----------------------------------------------------------------------------

\* A key is forgotten only when it must be: whenever a step drops the record of a
\* key or starts it afresh, the record has been kept for the retention time, or
\* the store was full and another key took its place.
\* (_expire and _evict_oldest_if_needed, with stamps that may be stale.)
ForgetsOnlyOldKeys(clock) ==
    \A k \in Present(keys) :
        keys'[k].status = "ABSENT" \/ keys'[k].createdAt # keys[k].createdAt
        => \/ clock >= keys[k].createdAt + IdemTtl
           \/ /\ Cardinality(Present(keys)) >= MaxEntries
              /\ keys'[k].status = "ABSENT"
=============================================================================
