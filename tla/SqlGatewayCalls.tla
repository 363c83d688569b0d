---------------------------- MODULE SqlGatewayCalls ----------------------------
(***************************************************************************)
(* Tool calls in production: requests to the API and the gateway, each     *)
(* authenticated twice (GatewayAuth), whose rate limit and idempotency     *)
(* keys are rows of PostgreSQL under READ COMMITTED (persistence.py) where *)
(* McpGateway has stores with locks.  The calls are of one principal and   *)
(* one tool.  What happens to an approval is SqlApprovalStore's subject:   *)
(* here a call may ask for one and end.                                    *)
(* A handler serves one request at a time.  It is a thread of the pool on  *)
(* which the server runs the endpoint (app.py), in any process: the stores *)
(* keep nothing in memory, so that it does not matter in which.            *)
(***************************************************************************)
EXTENDS GatewayAuth, Sequences, FiniteSets

CONSTANTS
    Procs,               \* handlers: requests that are served at once
    Keys,
    Permitted,           \* roles with the permission of the tool
    Secret,              \* service_auth_shared_secret
    Requests,            \* requests to the API: token, role in the body
    Allowed, Window,     \* the rate limit: calls, and the time it counts them over
    Ttl, MaxEntries,     \* ttl_seconds, max_entries of the idempotency store
    MaxTime, MaxCalls, MaxCrashes   \* bounds

ASSUME CallsAssumption ==
    /\ IsFiniteSet(Procs) /\ Procs # {} /\ Nothing \notin Keys
    /\ Permitted \subseteq Roles
    /\ \A r \in Requests : DOMAIN r = {"token", "role"}
    /\ Allowed \in Nat /\ Window \in Nat \ {0}
    /\ Ttl \in Nat \ {0} /\ MaxEntries \in Nat \ {0}
    /\ MaxTime \in Nat /\ MaxCalls \in Nat /\ MaxCrashes \in Nat

VARIABLES
    clock,
    admitted,   \* gateway_rate_limit_calls: call -> called_at
    keys,       \* gateway_idempotency_keys: key -> row
    proc,       \* handler -> its call
    made,       \* calls made so far; a call is named by its number
    ran,        \* history: call -> what its run acted for
    answered,   \* history: call -> answer
    admittedAt, \* history: call -> when the rate limiter admitted it
    removed,    \* history: keys whose row was expired or evicted
    crashed     \* history: calls whose handler died

vars == <<clock, admitted, keys, proc, made, ran, answered, admittedAt, removed, crashed>>
callHistory == <<made, ran, answered, admittedAt, removed, crashed>>

Calls == 1 .. made
Final == {"SUCCEEDED", "PERMANENT_FAILED"}
With(f, x, v) == [y \in DOMAIN f \cup {x} |-> IF y = x THEN v ELSE f[y]]
Without(f, S) == [x \in DOMAIN f \ S |-> f[x]]

\* A handler between two calls.  A call collects what it has read: the stamp that counts
\* for it, the rows that its transactions delete, the outcome and whether it found its key.
Idle ==
    [ pc |-> "idle", call |-> 0, key |-> Nothing, token |-> Nothing, role |-> Nothing,
      now |-> 0, dropped |-> {}, expired |-> {}, victims |-> {}, status |-> "none",
      found |-> FALSE ]

Init ==
    /\ clock = 0 /\ made = 0
    /\ admitted = <<>> /\ keys = <<>>
    /\ proc = [p \in Procs |-> Idle]
    /\ ran = <<>> /\ answered = <<>> /\ admittedAt = <<>>
    /\ removed = {} /\ crashed = {}

----------------------------------------------------------------------------
(* a request and who it acts for *)

Goto(p, pc) == proc' = [proc EXCEPT ![p].pc = pc]

\* The call ends with the answer of a call: its own, or one that it replays.
AnswerOf(p, what, call) ==
    /\ answered' = With(answered, proc[p].call,
                        [what |-> what, key |-> proc[p].key, call |-> call])
    /\ proc' = [proc EXCEPT ![p] = Idle]

Answer(p, what) == AnswerOf(p, what, proc[p].call)

\* An endpoint of the API: the actor, and the call it sends to the gateway.
Request(p, request, key) ==
    LET actor == ResolveApiActor(request, clock) IN
    /\ proc[p].pc = "idle" /\ made < MaxCalls
    /\ made' = made + 1
    /\ IF actor = Nothing
       THEN /\ answered' = With(answered, made + 1,
                                [what |-> "http_401", key |-> key, call |-> made + 1])
            /\ UNCHANGED proc
       ELSE /\ proc' = [proc EXCEPT ![p].pc = "gateway", ![p].call = made + 1, ![p].key = key,
                                    ![p].token = actor.token]
            /\ UNCHANGED answered
    /\ UNCHANGED <<clock, admitted, keys, ran, admittedAt, removed, crashed>>

\* call_tool of the gateway's app and of McpGateway: the service, the token again, at the
\* time that counts for the whole call, and the permission.  The agent sends the secret of
\* the configuration that both read.
Authorize(p) ==
    LET t == proc[p].token IN
    /\ proc[p].pc = "gateway"
    /\ IF AuthorizeService(Secret, Secret) /\ Authenticates(t, clock) /\ t.role \in Permitted
       THEN /\ proc' = [proc EXCEPT ![p].pc = "count", ![p].role = t.role, ![p].now = clock]
            /\ UNCHANGED answered
       ELSE Answer(p, "denied")
    /\ UNCHANGED <<clock, admitted, keys, made, ran, admittedAt, removed, crashed>>

----------------------------------------------------------------------------
(* SqlAlchemyFixedWindowRateLimiter.check *)

\* The calls inside the window that ends now.
InWindow(now) == {c \in DOMAIN admitted : admitted[c] + Window > now}

\* The rows before that window.
Outdated(now) == DOMAIN admitted \ InWindow(now)

\* Mutant: a call is refused only when the limit is exceeded already.
CountBeyond(p) ==
    LET now == proc[p].now IN
    /\ proc[p].pc = "count"
    /\ \A q \in Procs \ {p} : proc[q].dropped \cap Outdated(now) = {}
    /\ IF Cardinality(InWindow(now)) > Allowed
       THEN Answer(p, "rate_limited")
       ELSE /\ proc' = [proc EXCEPT ![p].pc = "admit", ![p].dropped = Outdated(now)]
            /\ UNCHANGED answered
    /\ UNCHANGED <<clock, admitted, keys, made, ran, admittedAt, removed, crashed>>

\* The DELETE of the rows before the window waits for a transaction that deletes the same
\* ones; the count does not see what other handlers have not committed.
Count(p) ==
    LET now == proc[p].now IN
    /\ proc[p].pc = "count"
    /\ \A q \in Procs \ {p} : proc[q].dropped \cap Outdated(now) = {}
    /\ IF Cardinality(InWindow(now)) >= Allowed
       THEN Answer(p, "rate_limited")
       ELSE /\ proc' = [proc EXCEPT ![p].pc = "admit", ![p].dropped = Outdated(now)]
            /\ UNCHANGED answered
    /\ UNCHANGED <<clock, admitted, keys, made, ran, admittedAt, removed, crashed>>

\* The commit: the row of this call, without the deleted ones.
Admit(p) ==
    LET c == proc[p].call now == proc[p].now IN
    /\ proc[p].pc = "admit"
    /\ admitted' = With(Without(admitted, proc[p].dropped), c, now)
    /\ admittedAt' = With(admittedAt, c, now)
    /\ proc' = [proc EXCEPT ![p].pc = "reserve", ![p].dropped = {}]
    /\ UNCHANGED <<clock, keys, made, ran, answered, removed, crashed>>

----------------------------------------------------------------------------
(* SqlAlchemyIdempotencyStore *)

ExpiredKeys(now) == {k \in DOMAIN keys : keys[k].created + Ttl <= now}

\* Mutant: a key that is under way does not stop another call.
LookIgnoresRunning(p) ==
    LET k == proc[p].key
        expired == ExpiredKeys(proc[p].now)
    IN
    /\ proc[p].pc = "reserve"
    /\ IF k \notin DOMAIN keys \/ k \in expired
       THEN /\ proc' = [proc EXCEPT ![p].pc = "insert", ![p].expired = expired]
            /\ UNCHANGED answered
       ELSE IF keys[k].status \in Final THEN AnswerOf(p, keys[k].status, keys[k].response)
       ELSE Goto(p, "decide") /\ UNCHANGED answered
    /\ UNCHANGED <<clock, admitted, keys, made, ran, admittedAt, removed, crashed>>

\* reserve up to session.get: the DELETE of expired rows waits for a transaction that
\* deletes the same ones.  A replay or a refusal rolls that DELETE back.
Look(p) ==
    LET k == proc[p].key
        expired == ExpiredKeys(proc[p].now)
    IN
    /\ proc[p].pc = "reserve"
    /\ \A q \in Procs \ {p} : proc[q].expired \cap expired = {}
    /\ IF k \notin DOMAIN keys \/ k \in expired
       THEN /\ proc' = [proc EXCEPT ![p].pc = "insert", ![p].expired = expired]
            /\ UNCHANGED answered
       ELSE IF keys[k].status \in Final THEN AnswerOf(p, keys[k].status, keys[k].response)
       ELSE Answer(p, "duplicate")
    /\ UNCHANGED <<clock, admitted, keys, made, ran, admittedAt, removed, crashed>>

\* Somebody has committed the key since: the INSERT violates the primary key.
Taken(p) == proc[p].key \in DOMAIN keys \ proc[p].expired

\* The flush before the count: the INSERT waits for one of the same key; an
\* IntegrityError is no GatewayError, the request fails.
Insert(p) ==
    LET k == proc[p].key
        others == DOMAIN keys \ (proc[p].expired \cup {k})
        overflow == Cardinality(others) + 1 - MaxEntries
        age(j) == IF j = k THEN proc[p].now ELSE keys[j].created
    IN
    /\ proc[p].pc = "insert"
    /\ \A q \in Procs \ {p} : ~(proc[q].pc = "reserved" /\ proc[q].key = k)
    /\ IF Taken(p) THEN Answer(p, "http_500")
       ELSE /\ UNCHANGED answered
            /\ \E victims \in SUBSET (others \cup {k}) :
                  /\ Cardinality(victims) = IF overflow > 0 THEN overflow ELSE 0
                  /\ \A v \in victims, j \in (others \cup {k}) \ victims : age(v) <= age(j)
                  /\ proc' = [proc EXCEPT ![p].pc = "reserved", ![p].victims = victims]
    /\ UNCHANGED <<clock, admitted, keys, made, ran, admittedAt, removed, crashed>>

\* The commit of reserve.
Reserve(p) ==
    LET k == proc[p].key
        gone == proc[p].expired \cup proc[p].victims
        row == [status |-> "RESERVED", created |-> proc[p].now, response |-> 0]
    IN
    /\ proc[p].pc = "reserved"
    /\ keys' = Without(With(Without(keys, proc[p].expired), k, row), proc[p].victims)
    /\ removed' = removed \cup (gone \cap (DOMAIN keys \cup {k}))
    /\ proc' = [proc EXCEPT ![p].pc = "decide", ![p].expired = {}, ![p].victims = {}]
    /\ UNCHANGED <<clock, admitted, made, ran, answered, admittedAt, crashed>>

\* The tool needs an approval: the call ends and its key stays RESERVED.
AskApproval(p) ==
    /\ proc[p].pc = "decide"
    /\ Answer(p, "pending")
    /\ UNCHANGED <<clock, admitted, keys, made, ran, admittedAt, removed, crashed>>

\* The approval that the request names is missing, expired or of another operation: a
\* GatewayError without a run.
Refuse(p) ==
    /\ proc[p].pc = "decide"
    /\ proc' = [proc EXCEPT ![p].pc = "complete", ![p].status = "PERMANENT_FAILED"]
    /\ UNCHANGED <<clock, admitted, keys, callHistory>>

\* No open transaction of another request deletes or inserts the row of this key.
Unlocked(p) ==
    \A q \in Procs \ {p} :
        /\ proc[p].key \notin proc[q].expired \cup proc[q].victims
        /\ proc[q].pc = "reserved" => proc[p].key # proc[q].key

\* Mutant: a refusal after the reservation does not complete the key.
MarkRunningOrRefuse(p) ==
    LET k == proc[p].key IN
    /\ proc[p].pc = "decide"
    /\ \/ /\ keys' = IF k \in DOMAIN keys THEN [keys EXCEPT ![k].status = "RUNNING"] ELSE keys
          /\ Goto(p, "run") /\ UNCHANGED answered
       \/ Answer(p, "denied") /\ UNCHANGED keys
    /\ UNCHANGED <<clock, admitted, made, ran, admittedAt, removed, crashed>>

\* mark_running: a row that was gone when it was looked for is not missed; one that went
\* between the SELECT and the UPDATE (StaleDataError) fails the request.
MarkRunning(p) ==
    LET k == proc[p].key IN
    /\ proc[p].pc = "decide"
    /\ \/ /\ k \in DOMAIN keys /\ Unlocked(p)
          /\ keys' = [keys EXCEPT ![k].status = "RUNNING"]
          /\ Goto(p, "run") /\ UNCHANGED answered
       \/ k \notin DOMAIN keys /\ Goto(p, "run") /\ UNCHANGED <<keys, answered>>
       \/ k \notin DOMAIN keys /\ Answer(p, "http_500") /\ UNCHANGED keys
    /\ UNCHANGED <<clock, admitted, made, ran, admittedAt, removed, crashed>>

\* The tool runs, and succeeds or fails with a GatewayError.
Run(p) ==
    /\ proc[p].pc = "run"
    /\ ran' = With(ran, proc[p].call,
                   [key |-> proc[p].key, role |-> proc[p].role, token |-> proc[p].token,
                    at |-> proc[p].now])
    /\ \E status \in Final :
          proc' = [proc EXCEPT ![p].pc = "complete", ![p].status = status]
    /\ UNCHANGED <<clock, admitted, keys, made, answered, admittedAt, removed, crashed>>

\* complete up to session.get
FindRow(p) ==
    /\ proc[p].pc = "complete"
    /\ proc' = [proc EXCEPT ![p].pc = "write", ![p].found = proc[p].key \in DOMAIN keys]
    /\ UNCHANGED <<clock, admitted, keys, callHistory>>

\* The INSERT or UPDATE of complete and its commit.  An UPDATE of a row that is gone
\* (StaleDataError) and an INSERT of one that is there (IntegrityError) fail the request.
Complete(p) ==
    LET k == proc[p].key
        row == [status |-> proc[p].status, response |-> proc[p].call,
                created |-> IF k \in DOMAIN keys THEN keys[k].created ELSE clock]
    IN
    /\ proc[p].pc = "write"
    /\ Unlocked(p)
    /\ IF proc[p].found = (k \in DOMAIN keys)
       THEN keys' = With(keys, k, row) /\ Answer(p, proc[p].status)
       ELSE Answer(p, "http_500") /\ UNCHANGED keys
    /\ UNCHANGED <<clock, admitted, made, ran, admittedAt, removed, crashed>>

----------------------------------------------------------------------------

\* The handler dies with its process; its transaction is rolled back.  (A process that takes
\* several handlers with it is several of these steps.)
Die(p) ==
    /\ proc[p].pc # "idle" /\ Cardinality(crashed) < MaxCrashes
    /\ crashed' = crashed \cup {proc[p].call}
    /\ proc' = [proc EXCEPT ![p] = Idle]
    /\ UNCHANGED <<clock, admitted, keys, made, ran, answered, admittedAt, removed>>

Tick ==
    /\ clock < MaxTime /\ clock' = clock + 1
    /\ UNCHANGED <<admitted, keys, proc, callHistory>>

Next ==
    \/ \E p \in Procs :
          \/ \E request \in Requests, key \in Keys : Request(p, request, key)
          \/ Authorize(p) \/ Count(p) \/ Admit(p) \/ Look(p) \/ Insert(p) \/ Reserve(p)
          \/ AskApproval(p) \/ Refuse(p) \/ MarkRunning(p) \/ Run(p)
          \/ FindRow(p) \/ Complete(p) \/ Die(p)
    \/ Tick

Spec == Init /\ [][Next]_vars

----------------------------------------------------------------------------
(* properties *)

\* A run can be accounted for: it acted under the role of a token that was good when the
\* gateway looked at it, also if it expired on the way from the API, and a key runs a
\* second time only after its row was expired or evicted: neither two handlers at once
\* nor a crash lets two calls of it through.
\* (HmacJwtAuthenticator, _resolve_api_actor; the primary key decides between INSERTs.)
RunsAccountedFor ==
    \A c \in DOMAIN ran :
        /\ ran[c].token.signed /\ ran[c].token.exp > ran[c].at
        /\ ran[c].role = ran[c].token.role /\ ran[c].role \in Permitted
        /\ \A d \in DOMAIN ran \ {c} : ran[c].key = ran[d].key => ran[c].key \in removed

\* Of the calls in any window, the limiter admits no more than the limit and one for each
\* other handler that counted before they committed, as long as no later call has deleted
\* the rows of that window; once one has, a call that each of the other handlers had
\* already stamped may be admitted as well, for it finds nothing to count.
\* (SqlAlchemyFixedWindowRateLimiter.check deletes, counts and then inserts, and its stamp
\* is read before it starts.)
OvershootBounded ==
    \A now \in 0 .. clock :
        LET window == {c \in DOMAIN admittedAt :
                          admittedAt[c] <= now /\ now < admittedAt[c] + Window}
            others == Cardinality(Procs) - 1
        IN  Cardinality(window) <=
               Allowed + (IF window \subseteq DOMAIN admitted THEN others ELSE 2 * others)

InFlight(k) == {p \in Procs : proc[p].pc # "idle" /\ proc[p].key = k}

\* What is stored under a key is what became of its calls: a run that has ended is recorded
\* until the row is expired or evicted, unless its handler died, and a key that refuses
\* every call as a duplicate, no call of it being under way, does so because a call of it
\* asked for an approval or its handler died.
\* (complete, also when it finds no row; PENDING_APPROVAL does not complete the key.)
KeysExplained ==
    /\ \A c \in DOMAIN ran \ crashed :
          c \in DOMAIN answered /\ ran[c].key \notin removed =>
              ran[c].key \in DOMAIN keys /\ keys[ran[c].key].response # 0
    /\ \A k \in DOMAIN keys :
          keys[k].status \notin Final /\ InFlight(k) = {} =>
              \/ crashed # {}
              \/ \E c \in DOMAIN answered : answered[c].what = "pending" /\ answered[c].key = k
=============================================================================
