----------------------------- MODULE DeviceHealth -----------------------------
(***************************************************************************)
(* What the simulator's devices report and how it is judged: the telemetry *)
(* of a device under a failure scenario (registry.py), its health, alert   *)
(* and incident (consumers.py) and the rule-based diagnosis of it          *)
(* (mcp_ops_mcp/diagnostics.py).  Measurements are in tenths of their unit.*)
(***************************************************************************)
EXTENDS Naturals, FiniteSets

Scenarios ==
    {"service-crash", "cpu-saturation", "memory-pressure", "packet-loss", "network-timeout",
     "sensor-initialization-failure", "telemetry-delay", "disk-capacity-warning"}

NoScenario == "none"
ServiceNames == {"telemetry-agent", "control-plane", "sensor-ingestor", "diagnostic-runner"}
AllRunning == [s \in ServiceNames |-> "RUNNING"]

----------------------------------------------------------------------------
(* scenarios *)

\* _apply_scenario_to_services
ApplyToServices(services, scenario) ==
    CASE scenario \in {"service-crash", "sensor-initialization-failure"} ->
            [services EXCEPT !["sensor-ingestor"] = "CRASHED"]
      [] scenario = "network-timeout" -> [services EXCEPT !["telemetry-agent"] = "DEGRADED"]
      [] OTHER -> AllRunning

\* _base_telemetry of the device SIM-<index>
BaseTelemetry(index, services) ==
    [cpu |-> 10 * (25 + ((index * 3) % 45)), memory |-> 10 * (35 + ((index * 5) % 35)),
     temperature |-> 10 * (38 + (index % 18)), latency |-> 10 * (25 + ((index * 7) % 100)),
     loss |-> index % 5, disk |-> 10 * (45 + (index % 30)),
     services |-> services, delayed |-> FALSE]

\* _apply_scenario_to_telemetry, and the delay telemetry_for adds.
ApplyToTelemetry(t, scenario) ==
    CASE scenario = "service-crash" -> [t EXCEPT !.services["sensor-ingestor"] = "CRASHED"]
      [] scenario = "cpu-saturation" -> [t EXCEPT !.cpu = 984]
      [] scenario = "memory-pressure" -> [t EXCEPT !.memory = 942]
      [] scenario = "packet-loss" -> [t EXCEPT !.loss = 185]
      [] scenario = "network-timeout" ->
            [t EXCEPT !.latency = 50000, !.loss = 1000,
                      !.services["telemetry-agent"] = "DEGRADED"]
      [] scenario = "sensor-initialization-failure" ->
            [t EXCEPT !.temperature = 820, !.services["sensor-ingestor"] = "CRASHED"]
      [] scenario = "disk-capacity-warning" -> [t EXCEPT !.disk = 910]
      [] scenario = "telemetry-delay" -> [t EXCEPT !.delayed = TRUE]
      [] OTHER -> t

----------------------------------------------------------------------------
(* health *)

Some(t, state) == \E s \in ServiceNames : t.services[s] = state

\* evaluate_health
EvaluateHealth(t) ==
    IF \/ t.cpu >= 950 \/ t.memory >= 950 \/ t.latency >= 30000 \/ t.loss >= 500
       \/ t.temperature >= 800 \/ Some(t, "CRASHED")
    THEN "CRITICAL"
    ELSE IF \/ t.cpu >= 850 \/ t.memory >= 850 \/ t.loss >= 100 \/ t.disk >= 850
            \/ t.delayed \/ Some(t, "DEGRADED") \/ Some(t, "STOPPED")
    THEN "WARNING"
    ELSE "HEALTHY"

\* _alert_reason
AlertReason(t) ==
    IF Some(t, "CRASHED") THEN "E-SERVICE-CRASH"
    ELSE IF t.latency >= 30000 THEN "E-NET-TIMEOUT"
    ELSE IF t.loss >= 100 THEN "E-NET-LOSS"
    ELSE IF t.cpu >= 850 THEN "E-CPU-SATURATION"
    ELSE IF t.memory >= 850 THEN "E-MEM-PRESSURE"
    ELSE IF t.disk >= 850 THEN "E-DISK-CAPACITY"
    ELSE IF t.delayed THEN "E-TELEMETRY-DELAY"
    ELSE "E-DEVICE-WARNING"

----------------------------------------------------------------------------
(* diagnosis *)

\* What a device's logs may say: their error codes, which also stand for the words
\* "timeout", "response latency" and "crash" in their messages.
LogCodes == {"E-SENSOR-INIT", "E-NET-TIMEOUT", "E-SERVICE-CRASH", "E-CPU-LATENCY"}

\* The threshold of the signal high_latency.
LatencyThreshold == 2500

\* The signals _collect_evidence finds.
CollectEvidence(t, logs, scenario) ==
    LET found == [packet_loss |-> t.loss > 100,
                  network_timeout_error |-> "E-NET-TIMEOUT" \in logs,
                  cpu_percent |-> t.cpu > 900,
                  high_latency |-> t.latency > LatencyThreshold,
                  process_latency_error |-> "E-CPU-LATENCY" \in logs,
                  memory_percent |-> t.memory > 900,
                  crashed_service |-> Some(t, "CRASHED"),
                  degraded_service |-> Some(t, "DEGRADED"),
                  crash_log |-> "E-SERVICE-CRASH" \in logs,
                  sensor_initialization_error |-> "E-SENSOR-INIT" \in logs,
                  telemetry_delay |-> t.delayed,
                  disk_percent |-> t.disk > 850,
                  temperature_c |-> t.temperature > 800,
                  device_active_scenario |-> scenario # NoScenario]
    IN {s \in DOMAIN found : found[s]}

\* Mutant: a crashed service is cause enough and ends the search.
CausesUpToCrash(e) ==
    IF {"crashed_service", "crash_log"} \subseteq e THEN {"service failure candidate"}
    ELSE {"no deterministic failure rule matched"}

\* The causes diagnose names for the evidence e.
PossibleCauses(e) ==
    LET rule ==
          [c \in {"network communication issue", "CPU saturation candidate",
                  "service failure candidate", "memory pressure candidate",
                  "telemetry delay", "disk capacity warning",
                  "sensor initialization failure"} |->
            CASE c = "network communication issue" ->
                    {"packet_loss", "network_timeout_error"} \subseteq e
              [] c = "CPU saturation candidate" ->
                    "cpu_percent" \in e /\ e \cap {"high_latency", "process_latency_error"} # {}
              [] c = "service failure candidate" -> {"crashed_service", "crash_log"} \subseteq e
              [] c = "memory pressure candidate" -> "memory_percent" \in e
              [] c = "telemetry delay" -> "telemetry_delay" \in e
              [] c = "disk capacity warning" -> "disk_percent" \in e
              [] c = "sensor initialization failure" -> "sensor_initialization_error" \in e]
        named == {c \in DOMAIN rule : rule[c]}
    IN IF named = {} THEN {"no deterministic failure rule matched"} ELSE named

\* _severity
Severity(e) ==
    IF \/ {"packet_loss", "network_timeout_error"} \subseteq e
       \/ e \cap {"crashed_service", "cpu_percent", "temperature_c"} # {}
    THEN "CRITICAL"
    ELSE IF e \cap {"memory_percent", "disk_percent", "telemetry_delay", "degraded_service",
                    "crash_log", "sensor_initialization_error"} # {}
    THEN "WARNING" ELSE "INFO"

\* _expand_signals: with the names of the groups that have a signal in them.
ExpandSignals(signals) ==
    LET group == [network |-> {"packet_loss", "network_timeout_error", "high_latency",
                               "degraded_service"},
                  compute |-> {"cpu_percent", "process_latency_error", "memory_percent",
                               "high_latency"},
                  service |-> {"crashed_service", "crash_log", "sensor_initialization_error"},
                  storage |-> {"disk_percent", "telemetry_delay"}]
    IN signals \cup {g \in DOMAIN group : group[g] \cap signals # {}}

\* _seed_historical_incidents, as their signals
HistoricalIncidents ==
    {{"packet_loss", "network_timeout_error", "degraded_service"}, {"cpu_percent", "high_latency"},
     {"crashed_service", "crash_log"}, {"sensor_initialization_error", "crashed_service"},
     {"disk_percent"}}

\* SignalSimilarityIncidentRetriever.retrieve: whatever shares a signal or a group has
\* a similarity above zero.
RelatedIncidents(e) ==
    {i \in HistoricalIncidents : ExpandSignals(i) \cap ExpandSignals(e) # {}}

\* _confidence, in hundredths
Confidence(e) ==
    LET c == 35 + 7 * Cardinality(e) + 5 * Cardinality(RelatedIncidents(e)) IN
    IF c < 95 THEN c ELSE 95
=============================================================================
