------------------------- MODULE PlannerProviderProofs -------------------------
(* What the breaker and the planner's retries keep, for any number of threads. *)
EXTENDS PlannerProvider, TLAPS

LEMMA CappedInRange ==
    ASSUME NEW n \in 0 .. CountCap, ProviderAssumption
    PROVE  /\ Capped(n + 1) \in 0 .. CountCap
           /\ \A m \in 0 .. CountCap : m <= n => Capped(m + 1) <= Capped(n + 1)
           /\ Capped(n + 1) <= n + 1
BY DEF Capped, ProviderAssumption

\* The steps that a thread takes keep every variable in its range.
LEMMA TypeStep == ProviderAssumption /\ TypeOK /\ [Next]_vars => TypeOK'
<1> SUFFICES ASSUME ProviderAssumption, TypeOK, [Next]_vars PROVE TypeOK'
  OBVIOUS
<1> USE DEF ProviderAssumption, TypeOK, Points, Goto
<1>1. CASE UNCHANGED vars
  BY <1>1 DEF vars
<1>2. CASE Tick
  BY <1>2 DEF Tick
<1>3. CASE Heal
  BY <1>3 DEF Heal, breaker
<1>4. ASSUME NEW r \in Threads, Ask(r) PROVE TypeOK'
  BY <1>4 DEF Ask, breaker
<1>5. ASSUME NEW r \in Threads, Serve(r) PROVE TypeOK'
  <2>1. CASE Refresh(r)
    BY <2>1 DEF Refresh
  <2>2. CASE Admit(r)
    BY <2>2 DEF Admit, End, breaker
  <2>3. CASE Content(r)
    BY <2>3 DEF Content, Leave, Called, breaker
  <2>4. CASE Transient(r)
    BY <2>4 DEF Transient, MayRetry, Leave, Called, breaker
  <2>5. CASE Permanent(r)
    BY <2>5 DEF Permanent, End, breaker
  <2>6. CASE Truncated(r)
    BY <2>6 DEF Truncated, AskAgain, Leave, Called, End, breaker
  <2>7. CASE RecordSuccess(r)
    BY <2>7 DEF RecordSuccess, AfterProbe, AfterSuccess
  <2>8. CASE Close(r)
    BY <2>8 DEF Close
  <2>9. CASE Parse(r)
    BY <2>9 DEF Parse, AskAgain, End, breaker
  <2>10. CASE RecordFailure(r)
    <3>1. Capped(failures + 1) \in 0 .. CountCap /\ Capped(streak + 1) \in 0 .. CountCap
      BY CappedInRange
    <3>2. QED
      BY <2>10, <3>1 DEF RecordFailure, End
  <2>11. CASE Open(r)
    BY <2>11 DEF Open
  <2>12. CASE Stamp(r)
    BY <2>12 DEF Stamp, End
  <2>13. QED
    BY <1>5, <2>1, <2>2, <2>3, <2>4, <2>5, <2>6, <2>7, <2>8, <2>9, <2>10, <2>11, <2>12
    DEF Serve
<1>6. QED
  BY <1>1, <1>2, <1>3, <1>4, <1>5 DEF Next

\* The breaker and the threads that share it keep their types (planner.py).
THEOREM ProviderTypes == Spec => []TypeOK
<1>1. Init => TypeOK
  <2> SUFFICES ASSUME Init PROVE TypeOK
    OBVIOUS
  <2>1. /\ circuit \in {"closed", "open", "half_open"}
        /\ failures \in 0 .. CountCap /\ streak \in 0 .. CountCap
        /\ cooling \in 0 .. Cooldown /\ probed \in Nat
    BY ProviderAssumption DEF Init, ProviderAssumption
  <2>2. /\ pc \in [Threads -> Points]
        /\ round \in [Threads -> 1 .. 2] /\ attempt \in [Threads -> 1 .. MaxAttempts]
        /\ calls \in [Threads -> Nat]
    BY ProviderAssumption DEF Init, ProviderAssumption, Points
  <2>3. healthy \in BOOLEAN
    BY DEF Init
  <2>4. QED
    BY <2>1, <2>2, <2>3 DEF TypeOK
<1>2. QED
  BY <1>1, TypeStep, ProviderAssumption, PTL DEF Spec

-------------------------------------------------------------------------------
\* The calls a thread has made are those of its first completion, at most
\* MaxAttempts, and the attempts of the current one that it has behind it.
CallsSpent ==
    \A r \in Threads :
        /\ pc[r] = "idle" => calls[r] = 0 /\ round[r] = 1 /\ attempt[r] = 1
        /\ pc[r] \in {"arriving", "checking", "calling"} =>
              calls[r] + 1 <= (IF round[r] = 1 THEN 0 ELSE MaxAttempts) + attempt[r]
        /\ calls[r] <= (IF round[r] = 1 THEN MaxAttempts ELSE MaxAttempts + MaxAttempts)
        /\ pc[r] # "calling" => attempt[r] = 1

LEMMA CallsStep == ProviderAssumption /\ TypeOK /\ CallsSpent /\ [Next]_vars => CallsSpent'
<1> SUFFICES ASSUME ProviderAssumption, TypeOK, CallsSpent, [Next]_vars PROVE CallsSpent'
  OBVIOUS
<1> USE DEF ProviderAssumption, TypeOK, CallsSpent, Goto
<1>1. CASE UNCHANGED vars
  BY <1>1 DEF vars
<1>2. CASE Tick
  BY <1>2 DEF Tick
<1>3. CASE Heal
  BY <1>3 DEF Heal
<1>4. ASSUME NEW r \in Threads, Ask(r) PROVE CallsSpent'
  BY <1>4 DEF Ask
<1>5. ASSUME NEW r \in Threads, Serve(r) PROVE CallsSpent'
  <2>1. CASE Refresh(r)
    BY <2>1 DEF Refresh
  <2>2. CASE Admit(r)
    BY <2>2 DEF Admit, End
  <2>3. CASE Content(r)
    BY <2>3 DEF Content, Leave, Called
  <2>4. CASE Transient(r)
    BY <2>4 DEF Transient, MayRetry, Leave, Called
  <2>5. CASE Permanent(r)
    BY <2>5 DEF Permanent, End
  <2>6. CASE Truncated(r)
    BY <2>6 DEF Truncated, AskAgain, Leave, Called, End
  <2>7. CASE RecordSuccess(r)
    BY <2>7 DEF RecordSuccess
  <2>8. CASE Close(r)
    BY <2>8 DEF Close
  <2>9. CASE Parse(r)
    BY <2>9 DEF Parse, AskAgain, End
  <2>10. CASE RecordFailure(r)
    BY <2>10 DEF RecordFailure, End
  <2>11. CASE Open(r)
    BY <2>11 DEF Open
  <2>12. CASE Stamp(r)
    BY <2>12 DEF Stamp, End
  <2>13. QED
    BY <1>5, <2>1, <2>2, <2>3, <2>4, <2>5, <2>6, <2>7, <2>8, <2>9, <2>10, <2>11, <2>12
    DEF Serve
<1>6. QED
  BY <1>1, <1>2, <1>3, <1>4, <1>5 DEF Next

\* What a thread may still call follows from what it has called: MaxAttempts for
\* each of two rounds.
LEMMA CallsFit == ProviderAssumption /\ TypeOK /\ CallsSpent => CallsBounded
<1> SUFFICES ASSUME ProviderAssumption, TypeOK, CallsSpent, NEW r \in Threads, pc[r] = "calling"
             PROVE  calls[r] < round[r] * MaxAttempts
  BY DEF CallsBounded
<1>1. CASE round[r] = 1
  BY <1>1 DEF ProviderAssumption, TypeOK, CallsSpent
<1>2. CASE round[r] = 2
  <2>1. round[r] * MaxAttempts = MaxAttempts + MaxAttempts
    BY <1>2 DEF ProviderAssumption
  <2>2. QED
    BY <1>2, <2>1 DEF ProviderAssumption, TypeOK, CallsSpent
<1>3. QED
  BY <1>1, <1>2 DEF TypeOK

\* A plan costs the provider at most 2 * max_attempts calls, whatever fails in
\* between and whoever else uses the breaker (complete_json within plan).
THEOREM PlansAreCheap == Spec => []CallsBounded
<1>1. Init => CallsSpent
  BY ProviderAssumption DEF Init, CallsSpent, ProviderAssumption
<1>2. QED
  BY <1>1, CallsStep, CallsFit, ProviderTypes, ProviderAssumption, PTL DEF Spec

-------------------------------------------------------------------------------
LEMMA CountsStep ==
    ProviderAssumption /\ TypeOK /\ ClosedCountsConsecutive /\ [Next]_vars
        => ClosedCountsConsecutive'
<1> SUFFICES ASSUME ProviderAssumption, TypeOK, ClosedCountsConsecutive, [Next]_vars
             PROVE  ClosedCountsConsecutive'
  OBVIOUS
<1> USE DEF ProviderAssumption, TypeOK, ClosedCountsConsecutive, Goto
<1>1. CASE UNCHANGED vars
  BY <1>1 DEF vars
<1>2. CASE Tick
  BY <1>2 DEF Tick
<1>3. CASE Heal
  BY <1>3 DEF Heal, breaker
<1>4. ASSUME NEW r \in Threads, Ask(r) PROVE ClosedCountsConsecutive'
  BY <1>4 DEF Ask, breaker
<1>5. ASSUME NEW r \in Threads, Serve(r) PROVE ClosedCountsConsecutive'
  <2>1. CASE Refresh(r)
    BY <2>1 DEF Refresh, CooledDown
  <2>2. CASE Admit(r)
    BY <2>2 DEF Admit, End, breaker
  <2>3. CASE Content(r)
    BY <2>3 DEF Content, breaker
  <2>4. CASE Transient(r)
    BY <2>4 DEF Transient, breaker
  <2>5. CASE Permanent(r)
    BY <2>5 DEF Permanent, End, breaker
  <2>6. CASE Truncated(r)
    BY <2>6 DEF Truncated, AskAgain, End, breaker
  <2>7. CASE RecordSuccess(r)
    BY <2>7 DEF RecordSuccess, AfterSuccess
  <2>8. CASE Close(r)
    BY <2>8 DEF Close
  <2>9. CASE Parse(r)
    BY <2>9 DEF Parse, AskAgain, End, breaker
  <2>10. CASE RecordFailure(r)
    <3>1. CASE circuit = "closed"
      <4>1. failures' = Capped(failures + 1) /\ streak' = Capped(streak + 1)
        BY <2>10, <3>1 DEF RecordFailure
      <4>2. failures' <= streak'
        BY <3>1, <4>1, CappedInRange
      <4>3. failures' >= Threshold => pc'[r] = "opening"
        BY <2>10, <3>1 DEF RecordFailure
      <4>4. QED
        BY <2>10, <4>2, <4>3 DEF RecordFailure
    <3>2. CASE circuit # "closed"
      BY <2>10, <3>2 DEF RecordFailure
    <3>3. QED
      BY <3>1, <3>2
  <2>11. CASE Open(r)
    BY <2>11 DEF Open
  <2>12. CASE Stamp(r)
    BY <2>12 DEF Stamp, End
  <2>13. QED
    BY <1>5, <2>1, <2>2, <2>3, <2>4, <2>5, <2>6, <2>7, <2>8, <2>9, <2>10, <2>11, <2>12
    DEF Serve
<1>6. QED
  BY <1>1, <1>2, <1>3, <1>4, <1>5 DEF Next

\* Scattered failures never open the circuit: only as many in a row as the
\* threshold do, however threads overtake each other (_record_logical_failure).
THEOREM OnlyConsecutiveFailuresOpen == Spec => []ClosedCountsConsecutive
<1>1. Init => ClosedCountsConsecutive
  BY ProviderAssumption DEF Init, ClosedCountsConsecutive, ProviderAssumption
<1>2. QED
  BY <1>1, CountsStep, ProviderTypes, ProviderAssumption, PTL DEF Spec

\* An open circuit stays open for its cooldown, unless a thread was about to
\* close it when another one opened it again (_refresh_circuit has no lock).
THEOREM OpenStaysOpen == Spec => StaysOpen
<1> DEFINE Stays == circuit = "open" /\ cooling > 0 /\ circuit' # "open"
                      => \E r \in Threads : pc[r] = "closing"
<1>1. Next => Stays
  <2> SUFFICES ASSUME Next, circuit = "open", cooling > 0, circuit' # "open"
               PROVE  \E r \in Threads : pc[r] = "closing"
    OBVIOUS
  <2>1. PICK r \in Threads : Refresh(r) \/ RecordSuccess(r) \/ Close(r) \/ RecordFailure(r) \/ Open(r)
    BY DEF Next, Serve, Tick, Heal, Ask, Admit, Content, Transient, Permanent, Truncated, Parse,
           Stamp, breaker
  <2>2. QED
    BY <2>1 DEF Refresh, CooledDown, RecordSuccess, Close, RecordFailure, Open
<1>2. UNCHANGED vars => Stays
  BY DEF vars
<1>3. QED
  BY <1>1, <1>2, PTL DEF Spec, StaysOpen
===============================================================================
