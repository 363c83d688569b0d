---------------------------- MODULE PlannerProvider ----------------------------
(***************************************************************************)
(* The language model behind the planner (workflows/planner.py): requests  *)
(* that run in threads of the API server share one                         *)
(* ProviderResilientCompletionClient, its retries and its circuit breaker, *)
(* and LLMWorkflowPlanner asks a second time when an answer was unusable.  *)
(* The breaker has no lock: a thread may lose the processor wherever the   *)
(* code makes a call, so a method that calls in between is several steps.  *)
(***************************************************************************)
EXTENDS Naturals, FiniteSets

CONSTANTS
    Threads,       \* threads that serve plan requests, one after the other
    MaxAttempts,   \* ProviderRetryPolicy.max_attempts
    Threshold,     \* circuit_failure_threshold
    Cooldown,      \* circuit_cooldown_seconds, in ticks
    Probes,        \* half_open_probe_count
    CountCap       \* where the model stops counting failures

ASSUME ProviderAssumption ==
    /\ MaxAttempts \in Nat \ {0} /\ Threshold \in Nat \ {0}
    /\ Cooldown \in Nat /\ Probes \in Nat \ {0}
    /\ CountCap \in Nat /\ CountCap > Threshold

VARIABLES
    circuit,     \* _circuit_state
    failures,    \* _consecutive_request_failures
    cooling,     \* what is left until _circuit_open_until
    probed,      \* _half_open_successes
    pc,          \* where each thread is
    round,       \* the planner's first or second completion
    attempt,     \* the attempt of the current completion
    calls,       \* how often the thread called the provider for this plan
    streak,      \* completions that failed since one last succeeded
    healthy      \* the provider answers from now on

breaker == <<circuit, failures, cooling, probed>>
vars == <<circuit, failures, cooling, probed, pc, round, attempt, calls,
          streak, healthy>>

Points == {"idle", "arriving", "checking", "calling", "recording", "closing", "parsing",
           "failing", "opening", "stamping"}

Capped(n) == IF n > CountCap THEN CountCap ELSE n
Goto(r, p) == pc' = [pc EXCEPT ![r] = p]

\* The plan request of thread r is over, and what it kept is forgotten.
End(r) ==
    /\ Goto(r, "idle")
    /\ round' = [round EXCEPT ![r] = 1]
    /\ attempt' = [attempt EXCEPT ![r] = 1]
    /\ calls' = [calls EXCEPT ![r] = 0]

Init ==
    /\ circuit = "closed" /\ failures = 0 /\ cooling = 0 /\ probed = 0
    /\ pc = [r \in Threads |-> "idle"]
    /\ round = [r \in Threads |-> 1]
    /\ attempt = [r \in Threads |-> 1]
    /\ calls = [r \in Threads |-> 0]
    /\ streak = 0
    /\ healthy = FALSE

\* LLMWorkflowPlanner.plan is called.
Ask(r) ==
    /\ pc[r] = "idle"
    /\ Goto(r, "arriving")
    /\ UNCHANGED <<breaker, round, attempt, calls, streak, healthy>>

CooledDown == circuit = "open" /\ cooling = 0

\* complete_json, _refresh_circuit.
Refresh(r) ==
    /\ pc[r] = "arriving"
    /\ IF CooledDown THEN circuit' = "half_open" /\ probed' = 0
                     ELSE UNCHANGED <<circuit, probed>>
    /\ Goto(r, "checking")
    /\ UNCHANGED <<failures, cooling, round, attempt, calls, streak, healthy>>

\* complete_json: an open circuit refuses, and so ends the plan.
Admit(r) ==
    /\ pc[r] = "checking"
    /\ IF circuit = "open"
       THEN End(r)
       ELSE Goto(r, "calling") /\ UNCHANGED <<round, attempt, calls>>
    /\ UNCHANGED <<breaker, streak, healthy>>

\* The call is made, and the completion leaves its loop.
Called(r) == calls' = [calls EXCEPT ![r] = @ + 1]
Leave(r) == Called(r) /\ attempt' = [attempt EXCEPT ![r] = 1]

\* The provider returns content, of whatever quality.
Content(r) ==
    /\ pc[r] = "calling"
    /\ Leave(r)
    /\ Goto(r, "recording")
    /\ UNCHANGED <<breaker, round, streak, healthy>>

MayRetry(r) == attempt[r] < MaxAttempts

\* A network error or HTTP 429, 502, 503, 504: sleep and try again, up to
\* max_attempts.  The circuit is not looked at again.
Transient(r) ==
    /\ pc[r] = "calling"
    /\ ~healthy
    /\ IF MayRetry(r)
       THEN Called(r) /\ attempt' = [attempt EXCEPT ![r] = @ + 1] /\ UNCHANGED pc
       ELSE Leave(r) /\ Goto(r, "failing")
    /\ UNCHANGED <<breaker, round, streak, healthy>>

\* Any other error: no retry and no trace in the breaker.
Permanent(r) ==
    /\ pc[r] = "calling"
    /\ ~healthy
    /\ End(r)
    /\ UNCHANGED <<breaker, streak, healthy>>

\* LLMWorkflowPlanner.plan asks once more, with feedback or for a shorter answer.
AskAgain(r) == round[r] = 1 /\ Goto(r, "arriving") /\ round' = [round EXCEPT ![r] = 2]

\* MAX_TOKENS: an error of the completion that leads to _retry_after_truncation.
Truncated(r) ==
    /\ pc[r] = "calling"
    /\ ~healthy
    /\ \/ AskAgain(r) /\ Leave(r)
       \/ round[r] = 2 /\ End(r)
    /\ UNCHANGED <<breaker, streak, healthy>>

\* Mutant: a success does not end the series of failures.
AfterSuccessKept == failures

AfterSuccess == 0

\* Mutant: a successful probe is not counted.
AfterProbeUncounted == probed

AfterProbe == probed + 1

\* _record_logical_success up to its call of max().
RecordSuccess(r) ==
    /\ pc[r] = "recording"
    /\ streak' = 0
    /\ IF circuit = "half_open"
       THEN /\ probed' = AfterProbe
            /\ Goto(r, IF probed' >= Probes THEN "closing" ELSE "parsing")
            /\ UNCHANGED failures
       ELSE failures' = AfterSuccess /\ Goto(r, "parsing") /\ UNCHANGED probed
    /\ UNCHANGED <<circuit, cooling, round, attempt, calls, healthy>>

\* ... and its end.
Close(r) ==
    /\ pc[r] = "closing"
    /\ failures' = 0 /\ circuit' = "closed" /\ probed' = 0
    /\ Goto(r, "parsing")
    /\ UNCHANGED <<cooling, round, attempt, calls, streak, healthy>>

\* _parse: the content is a plan, or it is not and plan() asks for a correction
\* or, the second time, gives up.
Parse(r) ==
    /\ pc[r] = "parsing"
    /\ \/ End(r)
       \/ AskAgain(r) /\ UNCHANGED <<attempt, calls>>
    /\ UNCHANGED <<breaker, streak, healthy>>

\* _record_logical_failure up to its call of _open_circuit.
RecordFailure(r) ==
    /\ pc[r] = "failing"
    /\ probed' = 0
    /\ streak' = Capped(streak + 1)
    /\ failures' = IF circuit = "half_open" THEN failures ELSE Capped(failures + 1)
    /\ IF circuit = "half_open" \/ failures' >= Threshold
       THEN Goto(r, "opening") /\ UNCHANGED <<round, attempt, calls>>
       ELSE End(r)
    /\ UNCHANGED <<circuit, cooling, healthy>>

\* _open_circuit: the state, then the clock is read and the end of the cooldown set.
Open(r) ==
    /\ pc[r] = "opening"
    /\ circuit' = "open"
    /\ Goto(r, "stamping")
    /\ UNCHANGED <<failures, cooling, probed, round, attempt, calls, streak, healthy>>

Stamp(r) ==
    /\ pc[r] = "stamping"
    /\ cooling' = Cooldown
    /\ End(r)
    /\ UNCHANGED <<circuit, failures, probed, streak, healthy>>

\* The clock goes on.
Tick ==
    /\ cooling > 0
    /\ cooling' = cooling - 1
    /\ UNCHANGED <<circuit, failures, probed, pc, round, attempt, calls, streak, healthy>>

\* The provider comes back for good.
Heal ==
    /\ ~healthy
    /\ healthy' = TRUE
    /\ UNCHANGED <<breaker, pc, round, attempt, calls, streak>>

Serve(r) ==
    \/ Refresh(r) \/ Admit(r)
    \/ Content(r) \/ Transient(r) \/ Permanent(r) \/ Truncated(r)
    \/ RecordSuccess(r) \/ Close(r) \/ Parse(r)
    \/ RecordFailure(r) \/ Open(r) \/ Stamp(r)

Next == Tick \/ Heal \/ \E r \in Threads : Ask(r) \/ Serve(r)

Spec == Init /\ [][Next]_vars

\* Threads run, HTTP calls time out, the clock does not stop, and people keep
\* asking.
FairSpec ==
    /\ Spec
    /\ WF_vars(Tick)
    /\ \A r \in Threads : WF_vars(Ask(r)) /\ WF_vars(Serve(r))

-------------------------------------------------------------------------------
\* The breaker's fields and the threads' places are what the code knows.
TypeOK ==
    /\ circuit \in {"closed", "open", "half_open"}
    /\ failures \in 0 .. CountCap /\ streak \in 0 .. CountCap
    /\ cooling \in 0 .. Cooldown /\ probed \in Nat
    /\ pc \in [Threads -> Points]
    /\ round \in [Threads -> 1 .. 2] /\ attempt \in [Threads -> 1 .. MaxAttempts]
    /\ calls \in [Threads -> Nat]
    /\ healthy \in BOOLEAN

\* A plan costs the provider at most two completions of max_attempts calls each,
\* however its two levels of retries interleave.
CallsBounded ==
    \A r \in Threads : pc[r] = "calling" => calls[r] < round[r] * MaxAttempts

\* While the circuit is closed, _consecutive_request_failures never exceeds the
\* failures since the last success, and it only reaches the threshold while a
\* thread is on its way to open the circuit: no scattered failures open it.
ClosedCountsConsecutive ==
    circuit = "closed" =>
      /\ failures <= streak
      /\ failures >= Threshold => \E r \in Threads : pc[r] = "opening"

\* An open circuit stays open until its cooldown is over, unless a thread had
\* found enough probes successful before the circuit was opened again.
StaysOpen ==
    [][circuit = "open" /\ cooling > 0 /\ circuit' # "open" =>
         \E r \in Threads : pc[r] = "closing"]_vars

\* If the provider is back for good and requests keep coming, the circuit closes
\* for good.
ProviderRecovers == <>[]healthy => <>[](circuit = "closed")
===============================================================================
