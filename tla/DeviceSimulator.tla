---------------------------- MODULE DeviceSimulator ----------------------------
(***************************************************************************)
(* The simulator gateway with the domain tools on its registry: scenarios  *)
(* are switched on and off (registry.py), a producer publishes telemetry   *)
(* (producer.py, events.py), calls of the endpoint that processes it run   *)
(* in threads of the server and share one consumer (consumers.py, app.py), *)
(* and the tools of device-mcp and diagnostics-mcp, behind their           *)
(* dispatcher, restart, configure and diagnose the same devices            *)
(* (mcp_ops_mcp/services.py and dispatcher.py).                            *)
(***************************************************************************)
EXTENDS DeviceHealth, Sequences, SequencesExt

CONSTANTS
    Devices,        \* numbers of the devices SIM-<number>
    Workers,        \* threads that process telemetry
    Roles, Operators,   \* roles, and those with devices:operate
    Patches,        \* configuration patches: functions on configuration keys
    OnKafka,        \* whether events go to Kafka: a publisher that may raise, on topics
                    \* that outlive the process (KafkaEventPublisher)
    Lag,            \* how late delayed telemetry is, seven minutes
    MaxTime,        \* bound: the clock
    MaxChanges, MaxSnapshots, MaxCalls   \* bounds: changes, publications, process calls

ASSUME SimulatorAssumption ==
    /\ Devices \subseteq Nat /\ IsFiniteSet(Workers)
    /\ Operators \subseteq Roles
    /\ OnKafka \in BOOLEAN
    /\ Lag \in Nat /\ MaxTime \in Nat
    /\ MaxChanges \in Nat /\ MaxSnapshots \in Nat /\ MaxCalls \in Nat

VARIABLES
    device,      \* registry: scenario, states of services, status
    config,      \* DeviceDomainService._configuration
    clock,       \* the simulator's clock
    producing,   \* publish_snapshot -> telemetry it has taken and not yet published
    telemetry,   \* the topic device.telemetry of the event bus
    processed,   \* TelemetryConsumer._processed_ids
    worker,      \* thread -> where process_telemetry stands
    emitted,     \* event -> how often it was published on the other topics
    lost,        \* history: event ids at which the publisher raised or the process died
    up,          \* whether the process lives
    bound        \* bound: changes, snapshots and process calls so far

vars == <<device, config, clock, producing, telemetry, processed, worker, emitted, lost, up,
          bound>>

Idle == [pc |-> "idle", todo |-> <<>>]

----------------------------------------------------------------------------
(* telemetry and its events *)

\* telemetry_for
TelemetryFor(d) ==
    ApplyToTelemetry(BaseTelemetry(d, device[d].services), device[d].scenario)

\* event_id: the topic, the device and the timestamp, not the contents.
EventId(d, t, obs) == <<d, t>>

\* telemetry_event
TelemetryEvent(d) ==
    LET obs == TelemetryFor(d)
        t == IF obs.delayed THEN clock - Lag ELSE clock
    IN [id |-> EventId(d, t, obs), device |-> d, time |-> t, obs |-> obs]

\* What process publishes of a telemetry event, and where: the health, the alert, the
\* incident.
Topic == [health |-> "device.health", alert |-> "device.alert", incident |-> "incident.created"]

Event(e, stage) ==
    [topic |-> Topic[stage], device |-> e.device, time |-> e.time,
     value |-> IF stage = "health" THEN EvaluateHealth(e.obs) ELSE AlertReason(e.obs)]

\* Mutant: the incident of a critical device before its alert.
IncidentFirst(e, stage) ==
    CASE stage = "health" /\ EvaluateHealth(e.obs) = "CRITICAL" -> "incident"
      [] stage = "health" /\ EvaluateHealth(e.obs) = "WARNING" -> "alert"
      [] stage = "incident" -> "alert"
      [] OTHER -> "next"

\* What process publishes next: build_alert has nothing for a healthy device, and only a
\* critical alert becomes an incident.
After(e, stage) ==
    CASE stage = "health" /\ EvaluateHealth(e.obs) # "HEALTHY" -> "alert"
      [] stage = "alert" /\ EvaluateHealth(e.obs) = "CRITICAL" -> "incident"
      [] OTHER -> "next"

\* _diagnostic_report
Diagnosis(d, logs) == CollectEvidence(TelemetryFor(d), logs, device[d].scenario)

----------------------------------------------------------------------------
(* configuration *)

SeedConfiguration ==
    [telemetry_interval_seconds |-> 30, diagnostics_enabled |-> TRUE,
     firmware_channel |-> "stable", packet_loss_threshold |-> 10]

\* _validate_configuration_patch: one bad key rejects the patch.
ValidPatch(patch) ==
    /\ DOMAIN patch \subseteq DOMAIN SeedConfiguration
    /\ "telemetry_interval_seconds" \in DOMAIN patch =>
          patch["telemetry_interval_seconds"] \in 5 .. 3600
    /\ "diagnostics_enabled" \in DOMAIN patch => patch["diagnostics_enabled"] \in BOOLEAN
    /\ "firmware_channel" \in DOMAIN patch => patch["firmware_channel"] \in {"stable", "candidate"}
    /\ "packet_loss_threshold" \in DOMAIN patch => patch["packet_loss_threshold"] \in 0 .. 100

----------------------------------------------------------------------------
(* state *)

Init ==
    /\ device = [d \in Devices |-> [scenario |-> NoScenario, services |-> AllRunning,
                                    status |-> "HEALTHY"]]
    /\ config = [d \in Devices |-> SeedConfiguration]
    /\ clock = Lag
    /\ producing = [n \in 1 .. MaxSnapshots |-> {}] /\ telemetry = <<>>
    /\ processed = {} /\ lost = {} /\ up = TRUE
    /\ worker = [w \in Workers |-> Idle]
    /\ emitted = <<>>
    /\ bound = [changes |-> 0, snapshots |-> 0, calls |-> 0]

----------------------------------------------------------------------------
(* scenarios and tools *)

Changes == bound.changes < MaxChanges /\ bound' = [bound EXCEPT !.changes = @ + 1]

\* POST /simulator/scenarios/{device_id}/{scenario}
ActivateScenario(d, scenario) ==
    /\ Changes
    /\ device' = [device EXCEPT ![d].scenario = scenario,
                                ![d].services = ApplyToServices(@, scenario)]
    /\ UNCHANGED <<config, clock, producing, telemetry, processed, worker, emitted, lost>>

\* clear_scenario starts every service.
Cleared(services) == AllRunning

\* clear_scenario, of DELETE /simulator/scenarios/{device_id} and of the tool
\* restart_device.
ClearScenario(d) ==
    /\ Changes
    /\ device' = [device EXCEPT ![d] = [scenario |-> NoScenario, services |-> Cleared(@.services),
                                        status |-> "HEALTHY"]]
    /\ UNCHANGED <<config, clock, producing, telemetry, processed, worker, emitted, lost>>

\* _authorize, of the tools that operate devices
Authorized(role) == role \in Operators

\* McpToolDispatcher.call_tool: the handler runs for a role with the tool's permission;
\* every other call is answered with an error and changes nothing.
CallTool(role, handler) == Authorized(role) /\ handler

RestartDevice(d) == ClearScenario(d)

RestartService(d, s) ==
    /\ Changes
    /\ device' = [device EXCEPT ![d].services[s] = "RUNNING"]
    /\ UNCHANGED <<config, clock, producing, telemetry, processed, worker, emitted, lost>>

UpdateConfiguration(d, patch) ==
    /\ Changes /\ ValidPatch(patch)
    /\ config' = [config EXCEPT ![d] =
          [k \in DOMAIN @ |-> IF k \in DOMAIN patch THEN patch[k] ELSE @[k]]]
    /\ UNCHANGED <<device, clock, producing, telemetry, processed, worker, emitted, lost>>

\* DeterministicClock.set
SetClock ==
    /\ clock < Lag + MaxTime /\ clock' = clock + 1
    /\ UNCHANGED <<device, config, producing, telemetry, processed, worker, emitted, lost, bound>>

----------------------------------------------------------------------------
(* the producer *)

\* publish_snapshot reads every device and then publishes in the order of their ids, in
\* a thread of its own: snapshots may overlap.
TakeSnapshot ==
    LET n == bound.snapshots + 1 IN
    /\ n <= MaxSnapshots
    /\ bound' = [bound EXCEPT !.snapshots = n]
    /\ producing' = [producing EXCEPT ![n] = {TelemetryEvent(d) : d \in Devices}]
    /\ UNCHANGED <<device, config, clock, telemetry, processed, worker, emitted, lost>>

PublishTelemetry(n) ==
    /\ \E e \in producing[n] :
          /\ \A f \in producing[n] : e.device <= f.device
          /\ telemetry' = Append(telemetry, e)
          /\ producing' = [producing EXCEPT ![n] = @ \ {e}]
    /\ UNCHANGED <<device, config, clock, processed, worker, emitted, lost, bound>>

----------------------------------------------------------------------------
(* the consumer *)

\* Mutant: the newest telemetry comes first.
TopicReversed == Reverse(telemetry)

\* topic_events: what the topic holds now, oldest first.
TopicEvents == telemetry

\* POST /simulator/telemetry/process
ProcessTelemetry(w) ==
    /\ worker[w].pc = "idle" /\ bound.calls < MaxCalls
    /\ telemetry # <<>>
    /\ bound' = [bound EXCEPT !.calls = @ + 1]
    /\ worker' = [worker EXCEPT ![w] = [pc |-> "check", todo |-> TopicEvents]]
    /\ UNCHANGED <<device, config, clock, producing, telemetry, processed, emitted, lost>>

\* The next event of the call, or its end.
Proceed(w) ==
    worker' = [worker EXCEPT ![w] =
        IF Len(@.todo) = 1 THEN Idle
        ELSE [pc |-> "check", todo |-> Tail(@.todo)]]

At(w, pc) == worker[w].pc = pc
Current(w) == Head(worker[w].todo)

\* process: an event with a known id is skipped.
Check(w) ==
    /\ At(w, "check")
    /\ IF Current(w).id \in processed THEN Proceed(w)
       ELSE worker' = [worker EXCEPT ![w].pc = "mark"]
    /\ UNCHANGED <<device, config, clock, producing, telemetry, processed, emitted, lost, bound>>

Mark(w) ==
    /\ At(w, "mark")
    /\ processed' = processed \cup {Current(w).id}
    /\ worker' = [worker EXCEPT ![w].pc = "update"]
    /\ UNCHANGED <<device, config, clock, producing, telemetry, emitted, lost, bound>>

\* update_health, whatever has happened to the device since.
UpdateHealth(w) ==
    LET e == Current(w) IN
    /\ At(w, "update")
    /\ device' = [device EXCEPT ![e.device].status = EvaluateHealth(e.obs)]
    /\ worker' = [worker EXCEPT ![w].pc = "health"]
    /\ UNCHANGED <<config, clock, producing, telemetry, processed, emitted, lost, bound>>

Count(event) == IF event \in DOMAIN emitted THEN emitted[event] ELSE 0

Emit(event) ==
    emitted' = [e \in DOMAIN emitted \cup {event} |->
                   Count(e) + (IF e = event THEN 1 ELSE 0)]

\* The next event of the current telemetry is published; GET /simulator/events may read
\* the topics between any two.
Publish(w) ==
    LET stage == worker[w].pc
        after == After(Current(w), stage)
    IN
    /\ stage \in DOMAIN Topic
    /\ Emit(Event(Current(w), stage))
    /\ IF after = "next" THEN Proceed(w) ELSE worker' = [worker EXCEPT ![w].pc = after]
    /\ UNCHANGED <<device, config, clock, producing, telemetry, processed, lost, bound>>

\* The publisher raises, before or after the event has gone out: the call ends, and the id
\* stays processed.
PublishFails(w) ==
    /\ OnKafka /\ worker[w].pc \in DOMAIN Topic
    /\ Emit(Event(Current(w), worker[w].pc)) \/ UNCHANGED emitted
    /\ lost' = lost \cup {Current(w).id}
    /\ worker' = [worker EXCEPT ![w] = Idle]
    /\ UNCHANGED <<device, config, clock, producing, telemetry, processed, bound>>

Consume(w) == Check(w) \/ Mark(w) \/ UpdateHealth(w) \/ Publish(w) \/ PublishFails(w)

\* The threads that publish the events of a telemetry event.
Publishing == {w \in Workers : worker[w].pc \in DOMAIN Topic}

\* The process dies while a thread publishes, and its threads stop where they stand; what it
\* had published can still be read on Kafka.  (Where no thread publishes, a death is as good
\* as a process that takes no further step.)
Die ==
    /\ OnKafka /\ Publishing # {}
    /\ up' = FALSE
    /\ lost' = lost \cup {Current(w).id : w \in Publishing}
    /\ worker' = [w \in Workers |-> Idle]
    /\ UNCHANGED <<device, config, clock, producing, telemetry, processed, emitted, bound>>

Operate ==
    \/ \E d \in Devices, scenario \in Scenarios : ActivateScenario(d, scenario)
    \/ \E d \in Devices : ClearScenario(d)
    \/ \E role \in Roles, d \in Devices :
          \/ CallTool(role, RestartDevice(d))
          \/ \E s \in ServiceNames : CallTool(role, RestartService(d, s))
          \/ \E patch \in Patches : CallTool(role, UpdateConfiguration(d, patch))
    \/ SetClock \/ TakeSnapshot
    \/ \E n \in 1 .. MaxSnapshots : PublishTelemetry(n)
    \/ \E w \in Workers : ProcessTelemetry(w) \/ Consume(w)

Next == up /\ ((Operate /\ UNCHANGED up) \/ Die)

Spec == Init /\ [][Next]_vars

----------------------------------------------------------------------------
(* properties *)

ExpectedHealth(s) ==
    CASE s = NoScenario -> "HEALTHY"
      [] s \in {"memory-pressure", "packet-loss", "telemetry-delay", "disk-capacity-warning"} ->
            "WARNING"
      [] OTHER -> "CRITICAL"

\* The causes that the tests of the diagnostics expect.
ExpectedCause(s) ==
    CASE s = "service-crash" -> "service failure candidate"
      [] s = "cpu-saturation" -> "CPU saturation candidate"
      [] s = "memory-pressure" -> "memory pressure candidate"
      [] s \in {"packet-loss", "network-timeout"} -> "network communication issue"
      [] s = "sensor-initialization-failure" -> "sensor initialization failure"
      [] s = "telemetry-delay" -> "telemetry delay"
      [] s = "disk-capacity-warning" -> "disk capacity warning"

\* Whatever scenarios, restarts and clears came before, a device is judged and diagnosed
\* as its active scenario deserves, not only a new one: its telemetry has the health of
\* the scenario, a diagnosis with full logs names its cause, and unless the device is
\* healthy the diagnosis reaches a human, with the seeded logs or, like on all devices
\* but one, without any: it is at least a warning, or not confident enough to act on
\* (the agent's limit of 0.7).
\* (registry.py and evaluate_health against RuleBasedDiagnosticsEngine.diagnose.)
DiagnosisFitsScenario ==
    \A d \in Devices :
        LET s == device[d].scenario
            escalates(e) == Severity(e) # "INFO" \/ Confidence(e) < 70
        IN  /\ EvaluateHealth(TelemetryFor(d)) = ExpectedHealth(s)
            /\ s # NoScenario =>
                  /\ ExpectedCause(s) \in PossibleCauses(Diagnosis(d, LogCodes))
                  /\ \A logs \in {{}, LogCodes} : escalates(Diagnosis(d, logs))

HealthEvents(id) ==
    {e \in DOMAIN emitted : e.topic = "device.health" /\ <<e.device, e.time>> = id}

\* Of several telemetry events with one id, the device and time being the same, it is
\* always the first one published whose health is announced, threads never disagree,
\* and none announces it twice, however often the topic is processed.
\* (event_id, topic_events and _processed_ids, which is checked and then added to
\* without a lock.)
FirstTelemetryWins ==
    \A i \in DOMAIN telemetry :
        (\A j \in 1 .. (i - 1) : telemetry[j].id # telemetry[i].id)
        => \A e \in HealthEvents(telemetry[i].id) :
              /\ e.value = EvaluateHealth(telemetry[i].obs)
              /\ emitted[e] <= Cardinality(Workers)

\* A device that was announced as CRITICAL has an incident, or a thread is about to publish
\* it, or the publisher raised or the process died at that event; and an incident that can
\* be read has its alert and that health, whoever else processes the same event.
\* (The order in which process publishes, on topics that can be read at any time.)
CriticalHasIncident ==
    \A e \in DOMAIN emitted :
        LET id == <<e.device, e.time>>
            On(topic) == {o \in DOMAIN emitted : o.topic = topic /\ <<o.device, o.time>> = id}
        IN
        /\ e.topic = "device.health" /\ e.value = "CRITICAL" /\ id \notin lost
           => \/ On("incident.created") # {}
              \/ \E w \in Workers : worker[w].pc \in {"alert", "incident"} /\ Current(w).id = id
        /\ e.topic = "incident.created" =>
              /\ \E a \in On("device.alert") : a.value = e.value
              /\ \E h \in On("device.health") : h.value = "CRITICAL"
=============================================================================
