------------------------- MODULE DeviceSimulatorProofs -------------------------
(***************************************************************************)
(* What DeviceSimulator guarantees for any devices, any number of threads  *)
(* that process telemetry, and any number of scenarios, snapshots, tool    *)
(* calls and failures of the publisher: that diagnoses fit the scenario,   *)
(* which telemetry of an instant is announced and how often, and that an   *)
(* announced failure has its incident.                                     *)
(***************************************************************************)
EXTENDS DeviceSimulator, FiniteSetTheorems, SequenceTheorems, TLAPS

----------------------------------------------------------------------------
(* devices and what they report *)

States == {"RUNNING", "CRASHED", "DEGRADED"}
Services == [ServiceNames -> States]

\* The scenarios that leave a service other than running.
Damaging == {"service-crash", "sensor-initialization-failure", "network-timeout"}

\* What a device reports, and an event that says so.
Measured ==
    [ cpu : Nat, memory : Nat, temperature : Nat, latency : Nat, loss : Nat, disk : Nat,
      services : Services, delayed : BOOLEAN ]
Events == [id : Devices \X Nat, device : Devices, time : Nat, obs : Measured]
Readings == {e \in Events : e.id = <<e.device, e.time>>}

DeviceType ==
    device \in [Devices -> [ scenario : Scenarios \cup {NoScenario}, services : Services,
                             status : {"HEALTHY", "WARNING", "CRITICAL"} ]]

\* Services run unless the active scenario is one that leaves them otherwise.
ServicesInv ==
    \A d \in Devices : device[d].scenario \notin Damaging => device[d].services = AllRunning

DeviceInv == DeviceType /\ ServicesInv

----------------------------------------------------------------------------
(* the topic and its readers *)

Stages == {"health", "alert", "incident"}
Working == {"mark", "update"} \cup Stages

TopicType ==
    /\ clock \in Nat /\ clock >= Lag
    /\ producing \in [1 .. MaxSnapshots -> SUBSET Readings]
    /\ telemetry \in Seq(Readings)
    /\ worker \in [Workers -> [pc : {"idle", "check"} \cup Working, todo : Seq(Readings)]]

\* A thread that is at the event after the first n reads what the topic holds; it has seen
\* to it that the ids before are processed, and works on an event only if none has its id.
ReadsAfter(w, n) ==
    LET todo == worker[w].todo IN
    /\ Len(todo) >= 1 /\ n + Len(todo) <= Len(telemetry)
    /\ \A i \in 1 .. Len(todo) : todo[i] = telemetry[n + i]
    /\ \A j \in 1 .. n : /\ telemetry[j].id \in processed
                         /\ worker[w].pc \in Working => telemetry[j].id # telemetry[n + 1].id

ReaderInv ==
    \A w \in Workers : worker[w].pc # "idle" =>
        /\ \E n \in Nat : ReadsAfter(w, n)
        /\ worker[w].pc \in {"update"} \cup Stages => Current(w).id \in processed

\* Health is announced of the first event of its id only.
IsFirst(i) == \A j \in 1 .. (i - 1) : telemetry[j].id # telemetry[i].id

FirstInv ==
    \A e \in DOMAIN emitted : e.topic = "device.health" =>
        \E i \in DOMAIN telemetry : /\ telemetry[i].id = <<e.device, e.time>> /\ IsFirst(i)
                                    /\ e.value = EvaluateHealth(telemetry[i].obs)

\* The threads that will announce the health of an id.  Once it has been announced no thread
\* takes it up, and each that is still at it announces it once more at most.
Holding(id) ==
    {w \in Workers : worker[w].pc \in {"mark", "update", "health"} /\ Current(w).id = id}

CountInv ==
    \A e \in DOMAIN emitted : e.topic = "device.health" =>
        /\ <<e.device, e.time>> \in processed
        /\ emitted[e] \in Nat
        /\ emitted[e] + Cardinality(Holding(<<e.device, e.time>>)) <= Cardinality(Workers)

TopicInv == DeviceInv /\ TopicType /\ ReaderInv
AnnouncedInv == TopicInv /\ FirstInv /\ CountInv

----------------------------------------------------------------------------
(* diagnoses *)

LEMMA ServicesType ==
    /\ AllRunning \in Services
    /\ \A services \in Services, s \in Scenarios :
          /\ ApplyToServices(services, s) \in Services
          /\ s \notin Damaging => ApplyToServices(services, s) = AllRunning
  BY DEF AllRunning, Services, States, ApplyToServices, ServiceNames, Damaging

\* The steps that touch a device.
DeviceChanges ==
    \/ \E d \in Devices, scenario \in Scenarios : ActivateScenario(d, scenario)
    \/ \E d \in Devices : ClearScenario(d) \/ \E s \in ServiceNames : RestartService(d, s)
    \/ \E w \in Workers : UpdateHealth(w)

LEMMA DeviceSteps ==
    ASSUME [Next]_vars PROVE DeviceChanges \/ UNCHANGED device
  BY DEF Next, Operate, vars, DeviceChanges, CallTool, RestartDevice, UpdateConfiguration,
         SetClock, TakeSnapshot, PublishTelemetry, ProcessTelemetry, Consume, Check, Mark,
         Publish, PublishFails, Die

\* A device is judged healthy, worthy of a warning or critical.
LEMMA HealthType == \A t : EvaluateHealth(t) \in {"HEALTHY", "WARNING", "CRITICAL"}
  BY DEF EvaluateHealth

\* Every scenario sets the services anew, or damages one; a restart and a clearing only
\* start services.
LEMMA DeviceStep == ASSUME DeviceInv, [Next]_vars PROVE DeviceInv'
  <1> USE DEF DeviceInv, DeviceType, ServicesInv
  <1>1. ASSUME NEW d \in Devices, NEW scenario \in Scenarios, ActivateScenario(d, scenario)
        PROVE  DeviceInv'
    <2>1. device[d].services \in Services
      OBVIOUS
    <2>2. PICK services \in Services :
             /\ services = ApplyToServices(device[d].services, scenario)
             /\ scenario \notin Damaging => services = AllRunning
      BY <2>1, ServicesType
    <2>3. device' = [device EXCEPT ![d].scenario = scenario, ![d].services = services]
      BY <1>1, <2>2 DEF ActivateScenario
    <2> QED BY <2>2, <2>3
  <1>2. ASSUME NEW d \in Devices, ClearScenario(d) PROVE DeviceInv'
    BY <1>2, ServicesType DEF ClearScenario, Cleared
  <1>3. ASSUME NEW d \in Devices, NEW s \in ServiceNames, RestartService(d, s)
        PROVE  DeviceInv'
    BY <1>3 DEF RestartService, Services, States, AllRunning
  <1>4. ASSUME NEW w \in Workers, UpdateHealth(w) PROVE DeviceInv'
    <2>1. PICK h \in {"HEALTHY", "WARNING", "CRITICAL"} : h = EvaluateHealth(Current(w).obs)
      BY HealthType
    <2>2. device' = [device EXCEPT ![Current(w).device].status = h]
      BY <1>4, <2>1 DEF UpdateHealth
    <2> QED BY <2>2
  <1>5. CASE UNCHANGED device
    BY <1>5
  <1> QED BY <1>1, <1>2, <1>3, <1>4, <1>5, DeviceSteps DEF DeviceChanges

LEMMA DeviceInit == Init => DeviceInv
  BY ServicesType DEF Init, DeviceInv, DeviceType, ServicesInv

\* What a device measures by itself gives no reason for concern.
Calm(t) ==
    /\ t.cpu < 850 /\ t.memory < 850 /\ t.temperature < 800
    /\ t.latency < 2500 /\ t.loss < 100 /\ t.disk < 850

LEMMA BaseIsCalm ==
    ASSUME NEW index \in Nat, NEW services \in Services
    PROVE  /\ BaseTelemetry(index, services) \in Measured
           /\ BaseTelemetry(index, services).services = services
           /\ ~BaseTelemetry(index, services).delayed
           /\ Calm(BaseTelemetry(index, services))
  <1>1. /\ (index * 3) % 45 \in 0 .. 44 /\ (index * 5) % 35 \in 0 .. 34
        /\ index % 18 \in 0 .. 17 /\ (index * 7) % 100 \in 0 .. 99
        /\ index % 5 \in 0 .. 4 /\ index % 30 \in 0 .. 29
    OBVIOUS
  <1> QED BY <1>1 DEF BaseTelemetry, Measured, Calm

\* What a scenario makes of it: which thresholds are passed.
Shows(t, s) ==
    /\ t.cpu > 900 <=> s = "cpu-saturation"
    /\ t.cpu >= 850 <=> s = "cpu-saturation"
    /\ t.cpu >= 950 <=> s = "cpu-saturation"
    /\ t.memory > 900 <=> s = "memory-pressure"
    /\ t.memory >= 850 <=> s = "memory-pressure"
    /\ t.memory < 950
    /\ t.latency >= 30000 <=> s = "network-timeout"
    /\ t.loss >= 100 <=> s \in {"packet-loss", "network-timeout"}
    /\ t.loss > 100 <=> s \in {"packet-loss", "network-timeout"}
    /\ t.loss >= 500 <=> s = "network-timeout"
    /\ t.temperature >= 800 <=> s = "sensor-initialization-failure"
    /\ t.temperature > 800 <=> s = "sensor-initialization-failure"
    /\ t.disk >= 850 <=> s = "disk-capacity-warning"
    /\ t.disk > 850 <=> s = "disk-capacity-warning"
    /\ t.latency > LatencyThreshold <=> s = "network-timeout"

Damages(services, s) ==
    /\ s \notin Damaging => services = AllRunning
    /\ s \in {"service-crash", "sensor-initialization-failure"} =>
          services["sensor-ingestor"] = "CRASHED"
    /\ s = "network-timeout" => services["telemetry-agent"] = "DEGRADED"

\* The measurements, the delay and the services of a scenario.
LEMMA ScenarioShows ==
    ASSUME NEW b \in Measured, Calm(b), NEW s \in Scenarios \cup {NoScenario}
    PROVE  Shows(ApplyToTelemetry(b, s), s)
  <1>1. /\ b.cpu \in Nat /\ b.memory \in Nat /\ b.latency \in Nat /\ b.loss \in Nat
        /\ b.temperature \in Nat /\ b.disk \in Nat
    BY DEF Measured
  <1>2. b = [ cpu |-> b.cpu, memory |-> b.memory, temperature |-> b.temperature,
              latency |-> b.latency, loss |-> b.loss, disk |-> b.disk,
              services |-> b.services, delayed |-> b.delayed ]
    BY DEF Measured
  <1> QED BY <1>1, <1>2 DEF ApplyToTelemetry, Calm, Shows, Scenarios, NoScenario,
                           LatencyThreshold

LEMMA ScenarioDelays ==
    ASSUME NEW b \in Measured, ~b.delayed, NEW s \in Scenarios \cup {NoScenario}
    PROVE  ApplyToTelemetry(b, s).delayed <=> s = "telemetry-delay"
  <1>1. CASE s = "telemetry-delay"
    BY <1>1 DEF ApplyToTelemetry, Measured
  <1>2. CASE s # "telemetry-delay"
    <2>1. ApplyToTelemetry(b, s).delayed = b.delayed
      <3>1. /\ [b EXCEPT !.services["sensor-ingestor"] = "CRASHED"].delayed = b.delayed
            /\ [b EXCEPT !.cpu = 984].delayed = b.delayed
            /\ [b EXCEPT !.memory = 942].delayed = b.delayed
            /\ [b EXCEPT !.loss = 185].delayed = b.delayed
            /\ [b EXCEPT !.latency = 50000, !.loss = 1000,
                         !.services["telemetry-agent"] = "DEGRADED"].delayed = b.delayed
            /\ [b EXCEPT !.temperature = 820,
                         !.services["sensor-ingestor"] = "CRASHED"].delayed = b.delayed
            /\ [b EXCEPT !.disk = 910].delayed = b.delayed
        BY DEF Measured
      <3> QED BY <1>2, <3>1 DEF ApplyToTelemetry
    <2> QED BY <1>2, <2>1
  <1> QED BY <1>1, <1>2

LEMMA ScenarioDamages ==
    ASSUME NEW b \in Measured, NEW s \in Scenarios \cup {NoScenario},
           s \notin Damaging => b.services = AllRunning
    PROVE  Damages(ApplyToTelemetry(b, s).services, s)
  <1>1. b.services \in [ServiceNames -> States]
    BY DEF Measured, Services
  <1> QED BY <1>1 DEF ApplyToTelemetry, Measured, Scenarios, NoScenario, Damaging, Damages,
                      ServiceNames

LEMMA ScenarioType ==
    ASSUME NEW b \in Measured, NEW s \in Scenarios \cup {NoScenario}
    PROVE  ApplyToTelemetry(b, s) \in Measured
  <1>1. b.services \in [ServiceNames -> States]
    BY DEF Measured, Services
  <1>2. /\ [b.services EXCEPT !["sensor-ingestor"] = "CRASHED"] \in [ServiceNames -> States]
        /\ [b.services EXCEPT !["telemetry-agent"] = "DEGRADED"] \in [ServiceNames -> States]
    BY <1>1 DEF States
  <1>3. \A services \in Services : [b EXCEPT !.services = services] \in Measured
    BY DEF Measured
  <1>4. /\ [b EXCEPT !.cpu = 984] \in Measured /\ [b EXCEPT !.memory = 942] \in Measured
        /\ [b EXCEPT !.loss = 185] \in Measured /\ [b EXCEPT !.disk = 910] \in Measured
    BY DEF Measured
  <1>5. [b EXCEPT !.delayed = TRUE] \in Measured
    BY DEF Measured
  <1>6. PICK crashed \in Services, degraded \in Services :
          /\ crashed = [b.services EXCEPT !["sensor-ingestor"] = "CRASHED"]
          /\ degraded = [b.services EXCEPT !["telemetry-agent"] = "DEGRADED"]
    BY <1>2 DEF Services
  <1>7. [b EXCEPT !.services["sensor-ingestor"] = "CRASHED"] \in Measured
    BY <1>3, <1>6 DEF Measured
  <1>8. [b EXCEPT !.temperature = 820, !.services["sensor-ingestor"] = "CRASHED"] \in Measured
    <2>0. [b EXCEPT !.temperature = 820] \in Measured
      BY DEF Measured
    <2>1. PICK c \in Measured : c = [b EXCEPT !.temperature = 820]
      BY <2>0
    <2>2. c.services = b.services
      BY <2>1 DEF Measured
    <2>3. [b EXCEPT !.temperature = 820, !.services["sensor-ingestor"] = "CRASHED"]
             = [c EXCEPT !.services = crashed]
      BY <1>6, <2>1, <2>2
    <2> QED BY <2>3 DEF Measured
  <1>9. [b EXCEPT !.latency = 50000, !.loss = 1000,
                  !.services["telemetry-agent"] = "DEGRADED"] \in Measured
    <2>0. [b EXCEPT !.latency = 50000, !.loss = 1000] \in Measured
      <3>1. [b EXCEPT !.latency = 50000] \in Measured
        BY DEF Measured
      <3>2. PICK c \in Measured : c = [b EXCEPT !.latency = 50000]
        BY <3>1
      <3>3. [c EXCEPT !.loss = 1000] \in Measured
        BY DEF Measured
      <3>4. [b EXCEPT !.latency = 50000, !.loss = 1000] = [c EXCEPT !.loss = 1000]
        BY <3>2
      <3> QED BY <3>3, <3>4
    <2>1. PICK c \in Measured : c = [b EXCEPT !.latency = 50000, !.loss = 1000]
      BY <2>0
    <2>2. c.services = b.services
      BY <2>1 DEF Measured
    <2>3. [b EXCEPT !.latency = 50000, !.loss = 1000, !.services["telemetry-agent"] = "DEGRADED"]
             = [c EXCEPT !.services = degraded]
      BY <1>6, <2>1, <2>2
    <2> QED BY <2>3 DEF Measured
  <1> QED BY <1>4, <1>5, <1>7, <1>8, <1>9 DEF ApplyToTelemetry

LEMMA TelemetryIs ==
    ASSUME DeviceInv, NEW d \in Devices
    PROVE  /\ TelemetryFor(d) \in Measured
           /\ Shows(TelemetryFor(d), device[d].scenario)
           /\ TelemetryFor(d).delayed <=> device[d].scenario = "telemetry-delay"
           /\ Damages(TelemetryFor(d).services, device[d].scenario)
  <1>1. d \in Nat /\ device[d].services \in Services
    BY SimulatorAssumption DEF DeviceInv, DeviceType
  <1>2. PICK s \in Scenarios \cup {NoScenario} : s = device[d].scenario
    BY DEF DeviceInv, DeviceType
  <1>3. s \notin Damaging => device[d].services = AllRunning
    BY <1>2 DEF DeviceInv, ServicesInv
  <1>4. PICK b : b = BaseTelemetry(d, device[d].services)
    OBVIOUS
  <1>5. b \in Measured /\ b.services = device[d].services /\ ~b.delayed /\ Calm(b)
    BY <1>1, <1>4, BaseIsCalm
  <1>6. TelemetryFor(d) = ApplyToTelemetry(b, s)
    BY <1>2, <1>4 DEF TelemetryFor
  <1>7. /\ ApplyToTelemetry(b, s) \in Measured /\ Shows(ApplyToTelemetry(b, s), s)
        /\ Damages(ApplyToTelemetry(b, s).services, s)
    BY <1>3, <1>5, ScenarioType, ScenarioShows, ScenarioDamages
  <1>8. ApplyToTelemetry(b, s).delayed <=> s = "telemetry-delay"
    BY <1>5, ScenarioDelays
  <1> QED BY <1>2, <1>6, <1>7, <1>8

\* evaluate_health sees every scenario for what it is, damaged services or not.
LEMMA HealthFits ==
    ASSUME DeviceInv, NEW d \in Devices
    PROVE  EvaluateHealth(TelemetryFor(d)) = ExpectedHealth(device[d].scenario)
  <1>1. PICK s \in Scenarios \cup {NoScenario} : s = device[d].scenario
    BY DEF DeviceInv, DeviceType
  <1>2. PICK t \in Measured : t = TelemetryFor(d)
    BY TelemetryIs
  <1>3. Shows(t, s) /\ Damages(t.services, s)
    BY <1>1, <1>2, TelemetryIs
  <1>4. t.delayed <=> s = "telemetry-delay"
    BY <1>1, <1>2, TelemetryIs
  <1>5. s \notin Damaging => ~Some(t, "CRASHED") /\ ~Some(t, "DEGRADED") /\ ~Some(t, "STOPPED")
    BY <1>3 DEF Some, AllRunning, Damages
  <1>6. s \in {"service-crash", "sensor-initialization-failure"} => Some(t, "CRASHED")
    BY <1>3 DEF Some, ServiceNames, Damages
  <1>7. /\ t.cpu \in Nat /\ t.memory \in Nat /\ t.latency \in Nat /\ t.loss \in Nat
        /\ t.temperature \in Nat /\ t.disk \in Nat
    BY DEF Measured
  <1>8. CASE s \in {"service-crash", "sensor-initialization-failure"}
    <2>1. EvaluateHealth(t) = "CRITICAL"
      BY <1>6, <1>8 DEF EvaluateHealth
    <2>2. ExpectedHealth(s) = "CRITICAL"
      BY <1>8 DEF ExpectedHealth, NoScenario
    <2> QED BY <1>1, <1>2, <2>1, <2>2
  <1>9. CASE s \in {"cpu-saturation", "network-timeout"}
    <2>1. EvaluateHealth(t) = "CRITICAL"
      <3>1. t.cpu >= 950 \/ t.latency >= 30000
        BY <1>3, <1>9 DEF Shows
      <3> QED BY <3>1 DEF EvaluateHealth
    <2>2. ExpectedHealth(s) = "CRITICAL"
      BY <1>9 DEF ExpectedHealth, NoScenario
    <2> QED BY <1>1, <1>2, <2>1, <2>2
  <1>10. CASE s \notin Damaging \cup {"cpu-saturation"}
    <2>1. /\ ~(t.cpu >= 850) /\ ~(t.cpu >= 950) /\ ~(t.memory >= 950) /\ ~(t.latency >= 30000)
          /\ ~(t.loss >= 500) /\ ~(t.temperature >= 800)
      BY <1>3, <1>7, <1>10 DEF Shows, Damaging
    <2>2. EvaluateHealth(t) =
            IF t.memory >= 850 \/ t.loss >= 100 \/ t.disk >= 850 \/ t.delayed
            THEN "WARNING" ELSE "HEALTHY"
      BY <1>5, <1>10, <2>1 DEF EvaluateHealth
    <2>3. t.memory >= 850 \/ t.loss >= 100 \/ t.disk >= 850 \/ t.delayed
             <=> s \in {"memory-pressure", "packet-loss", "telemetry-delay",
                       "disk-capacity-warning"}
      BY <1>3, <1>4, <1>10 DEF Shows, Damaging
    <2>4. CASE s \in {"memory-pressure", "packet-loss", "telemetry-delay",
                     "disk-capacity-warning"}
      <3>1. ExpectedHealth(s) = "WARNING"
        BY <2>4 DEF ExpectedHealth, NoScenario
      <3> QED BY <1>1, <1>2, <2>2, <2>3, <2>4, <3>1
    <2>5. CASE s = NoScenario
      <3>1. ExpectedHealth(s) = "HEALTHY"
        BY <2>5 DEF ExpectedHealth, NoScenario
      <3> QED BY <1>1, <1>2, <2>2, <2>3, <2>5, <3>1 DEF NoScenario
    <2> QED BY <1>1, <1>10, <2>4, <2>5 DEF Scenarios, Damaging
  <1> QED BY <1>8, <1>9, <1>10 DEF Damaging

\* _collect_evidence, signal by signal.
Tells(e, t, logs) ==
    /\ "packet_loss" \in e <=> t.loss > 100
    /\ "network_timeout_error" \in e <=> "E-NET-TIMEOUT" \in logs
    /\ "cpu_percent" \in e <=> t.cpu > 900
    /\ "process_latency_error" \in e <=> "E-CPU-LATENCY" \in logs
    /\ "memory_percent" \in e <=> t.memory > 900
    /\ "crashed_service" \in e <=> Some(t, "CRASHED")
    /\ "degraded_service" \in e <=> Some(t, "DEGRADED")
    /\ "high_latency" \in e <=> t.latency > LatencyThreshold
    /\ "crash_log" \in e <=> "E-SERVICE-CRASH" \in logs
    /\ "sensor_initialization_error" \in e <=> "E-SENSOR-INIT" \in logs
    /\ "telemetry_delay" \in e <=> t.delayed
    /\ "disk_percent" \in e <=> t.disk > 850
    /\ "temperature_c" \in e <=> t.temperature > 800
    /\ e \subseteq {"packet_loss", "network_timeout_error", "cpu_percent", "high_latency",
                   "process_latency_error", "memory_percent", "crashed_service",
                   "degraded_service", "crash_log", "sensor_initialization_error",
                   "telemetry_delay", "disk_percent", "temperature_c",
                   "device_active_scenario"}

LEMMA Signals ==
    ASSUME NEW t, NEW logs, NEW s
    PROVE  Tells(CollectEvidence(t, logs, s), t, logs)
  <1> DEFINE e == CollectEvidence(t, logs, s)
  <1>1. "packet_loss" \in e <=> t.loss > 100
    BY Zenon DEF CollectEvidence
  <1>2. "network_timeout_error" \in e <=> "E-NET-TIMEOUT" \in logs
    BY Zenon DEF CollectEvidence
  <1>3. "cpu_percent" \in e <=> t.cpu > 900
    BY Zenon DEF CollectEvidence
  <1>4. "process_latency_error" \in e <=> "E-CPU-LATENCY" \in logs
    BY Zenon DEF CollectEvidence
  <1>5. "memory_percent" \in e <=> t.memory > 900
    BY Zenon DEF CollectEvidence
  <1>6. "crashed_service" \in e <=> Some(t, "CRASHED")
    BY DEF CollectEvidence
  <1>7. "degraded_service" \in e <=> Some(t, "DEGRADED")
    BY DEF CollectEvidence
  <1>8. "high_latency" \in e <=> t.latency > LatencyThreshold
    BY Zenon DEF CollectEvidence
  <1>9. "crash_log" \in e <=> "E-SERVICE-CRASH" \in logs
    BY Zenon DEF CollectEvidence
  <1>10. "sensor_initialization_error" \in e <=> "E-SENSOR-INIT" \in logs
    BY Zenon DEF CollectEvidence
  <1>11. "telemetry_delay" \in e <=> t.delayed
    BY DEF CollectEvidence
  <1>12. "disk_percent" \in e <=> t.disk > 850
    BY Zenon DEF CollectEvidence
  <1>13. "temperature_c" \in e <=> t.temperature > 800
    BY Zenon DEF CollectEvidence
  <1>14. e \subseteq {"packet_loss", "network_timeout_error", "cpu_percent", "high_latency",
                    "process_latency_error", "memory_percent", "crashed_service",
                    "degraded_service", "crash_log", "sensor_initialization_error",
                    "telemetry_delay", "disk_percent", "temperature_c",
                    "device_active_scenario"}
    BY DEF CollectEvidence
  <1> HIDE DEF e
  <1> QED BY <1>1, <1>2, <1>3, <1>4, <1>5, <1>6, <1>7, <1>8, <1>9, <1>10, <1>11, <1>12, <1>13, <1>14 DEF Tells, e

\* diagnose, rule by rule.
LEMMA Causes ==
    ASSUME NEW e
    PROVE  /\ {"packet_loss", "network_timeout_error"} \subseteq e =>
                 "network communication issue" \in PossibleCauses(e)
           /\ {"cpu_percent", "process_latency_error"} \subseteq e =>
                 "CPU saturation candidate" \in PossibleCauses(e)
           /\ {"crashed_service", "crash_log"} \subseteq e =>
                 "service failure candidate" \in PossibleCauses(e)
           /\ "memory_percent" \in e => "memory pressure candidate" \in PossibleCauses(e)
           /\ "telemetry_delay" \in e => "telemetry delay" \in PossibleCauses(e)
           /\ "disk_percent" \in e => "disk capacity warning" \in PossibleCauses(e)
           /\ "sensor_initialization_error" \in e =>
                 "sensor initialization failure" \in PossibleCauses(e)
  <1>1. {"packet_loss", "network_timeout_error"} \subseteq e =>
         "network communication issue" \in PossibleCauses(e)
    BY Zenon DEF PossibleCauses
  <1>2. {"cpu_percent", "process_latency_error"} \subseteq e =>
         "CPU saturation candidate" \in PossibleCauses(e)
    BY Zenon DEF PossibleCauses
  <1>3. {"crashed_service", "crash_log"} \subseteq e =>
         "service failure candidate" \in PossibleCauses(e)
    BY Zenon DEF PossibleCauses
  <1>4. "memory_percent" \in e => "memory pressure candidate" \in PossibleCauses(e)
    BY Zenon DEF PossibleCauses
  <1>5. "telemetry_delay" \in e => "telemetry delay" \in PossibleCauses(e)
    BY Zenon DEF PossibleCauses
  <1>6. "disk_percent" \in e => "disk capacity warning" \in PossibleCauses(e)
    BY Zenon DEF PossibleCauses
  <1>7. "sensor_initialization_error" \in e =>
         "sensor initialization failure" \in PossibleCauses(e)
    BY Zenon DEF PossibleCauses
  <1> QED BY <1>1, <1>2, <1>3, <1>4, <1>5, <1>6, <1>7

\* The cause of every scenario is among those that its diagnosis with full logs names.
LEMMA CauseIsNamed ==
    ASSUME DeviceInv, NEW d \in Devices, device[d].scenario # NoScenario
    PROVE  ExpectedCause(device[d].scenario) \in PossibleCauses(Diagnosis(d, LogCodes))
  <1> DEFINE t == TelemetryFor(d)
             s == device[d].scenario
             e == Diagnosis(d, LogCodes)
  <1>1. s \in Scenarios
    BY DEF DeviceInv, DeviceType
  <1>2. e = CollectEvidence(t, LogCodes, s)
    BY DEF Diagnosis
  <1>3. {"network_timeout_error", "process_latency_error", "crash_log",
         "sensor_initialization_error"} \subseteq e
    BY <1>2, Signals DEF LogCodes, Tells
  <1>4. /\ s \in {"packet-loss", "network-timeout"} => "packet_loss" \in e
        /\ s = "cpu-saturation" => "cpu_percent" \in e
        /\ s = "memory-pressure" => "memory_percent" \in e
        /\ s = "telemetry-delay" => "telemetry_delay" \in e
        /\ s = "disk-capacity-warning" => "disk_percent" \in e
    BY <1>2, Signals, TelemetryIs DEF Tells, Shows
  <1>5. s = "service-crash" => "crashed_service" \in e
    BY <1>2, Signals, TelemetryIs DEF Some, ServiceNames, Tells, Damages
  <1> HIDE DEF e
  <1> QED BY <1>1, <1>3, <1>4, <1>5, Causes DEF ExpectedCause, Scenarios, e

LEMMA PairSize == \A a, b : IsFiniteSet({a, b}) /\ Cardinality({a, b}) <= 2
  <1> TAKE a, b
  <1>1. IsFiniteSet({a}) /\ Cardinality({a}) = 1
    BY FS_Singleton
  <1>2. {a, b} = {a} \cup {b}
    OBVIOUS
  <1> QED BY <1>1, <1>2, FS_AddElement

\* Packet loss without logs is the one failure that no rule takes to be serious: one signal
\* and the scenario, which two incidents of the past share.
LEMMA PacketLossIsUncertain ==
    ASSUME NEW e, e \subseteq {"packet_loss", "device_active_scenario"}
    PROVE  Confidence(e) < 70
  <1>1. IsFiniteSet(e) /\ Cardinality(e) <= 2
    <2>1. /\ IsFiniteSet({"packet_loss", "device_active_scenario"})
          /\ Cardinality({"packet_loss", "device_active_scenario"}) <= 2
      BY PairSize
    <2>2. IsFiniteSet(e) /\ Cardinality(e) <= Cardinality({"packet_loss", "device_active_scenario"})
      BY <2>1, FS_Subset
    <2> QED BY <2>1, <2>2, FS_CardinalityType
  <1> DEFINE network == {"packet_loss", "network_timeout_error", "degraded_service"}
             compute == {"cpu_percent", "high_latency"}
  <1>2. RelatedIncidents(e) \subseteq {network, compute}
    <2>1. ExpandSignals(e) \subseteq {"packet_loss", "device_active_scenario", "network"}
      <3>1. "compute" \notin ExpandSignals(e)
        BY DEF ExpandSignals
      <3>2. "service" \notin ExpandSignals(e)
        BY DEF ExpandSignals
      <3>3. "storage" \notin ExpandSignals(e)
        BY DEF ExpandSignals
      <3>4. ExpandSignals(e) \subseteq e \cup {"network", "compute", "service", "storage"}
        BY DEF ExpandSignals
      <3> QED BY <3>1, <3>2, <3>3, <3>4
    <2>2. "network" \notin ExpandSignals({"crashed_service", "crash_log"})
      BY DEF ExpandSignals
    <2>3. "network" \notin ExpandSignals({"sensor_initialization_error", "crashed_service"})
      BY DEF ExpandSignals
    <2>4. "network" \notin ExpandSignals({"disk_percent"})
      BY DEF ExpandSignals
    <2>5. ASSUME NEW i, i \in {{"crashed_service", "crash_log"}, {"disk_percent"},
                              {"sensor_initialization_error", "crashed_service"}}
          PROVE  ExpandSignals(i) \cap ExpandSignals(e) = {}
      <3>1. "packet_loss" \notin ExpandSignals(i) /\ "device_active_scenario" \notin ExpandSignals(i)
        BY <2>5 DEF ExpandSignals
      <3> QED BY <2>1, <2>2, <2>3, <2>4, <2>5, <3>1
    <2> QED BY <2>5 DEF RelatedIncidents, HistoricalIncidents
  <1>3. IsFiniteSet(RelatedIncidents(e)) /\ Cardinality(RelatedIncidents(e)) <= 2
    <2>1. IsFiniteSet({network, compute}) /\ Cardinality({network, compute}) <= 2
      BY PairSize
    <2>2. Cardinality(RelatedIncidents(e)) <= Cardinality({network, compute})
          /\ IsFiniteSet(RelatedIncidents(e))
      BY <1>2, <2>1, FS_Subset
    <2> QED BY <2>1, <2>2, FS_CardinalityType
  <1>4. Cardinality(e) \in Nat /\ Cardinality(RelatedIncidents(e)) \in Nat
    BY <1>1, <1>3, FS_CardinalityType
  <1> QED BY <1>1, <1>3, <1>4 DEF Confidence

\* Every scenario but packet loss is at least a warning, whatever the logs say.
LEMMA FailureEscalates ==
    ASSUME DeviceInv, NEW d \in Devices, device[d].scenario # NoScenario,
           NEW logs \in {{}, LogCodes}
    PROVE  LET e == Diagnosis(d, logs) IN Severity(e) # "INFO" \/ Confidence(e) < 70
  <1> DEFINE t == TelemetryFor(d)
             s == device[d].scenario
             e == Diagnosis(d, logs)
  <1>1. s \in Scenarios
    BY DEF DeviceInv, DeviceType
  <1>2. e = CollectEvidence(t, logs, s)
    BY DEF Diagnosis
  <1>3. /\ s = "cpu-saturation" => "cpu_percent" \in e
        /\ s = "memory-pressure" => "memory_percent" \in e
        /\ s = "telemetry-delay" => "telemetry_delay" \in e
        /\ s = "disk-capacity-warning" => "disk_percent" \in e
        /\ s = "sensor-initialization-failure" => "temperature_c" \in e
    BY <1>2, Signals, TelemetryIs DEF Tells, Shows
  <1>4. /\ s = "service-crash" => "crashed_service" \in e
        /\ s = "network-timeout" => "degraded_service" \in e
    BY <1>2, Signals, TelemetryIs DEF Some, ServiceNames, Tells, Damages
  <1>5. CASE s # "packet-loss"
    <2> HIDE DEF e
    <2> QED BY <1>1, <1>3, <1>4, <1>5 DEF Severity, Scenarios, e
  <1>6. CASE logs = LogCodes
    <2>1. "crash_log" \in e
      BY <1>2, <1>6, Signals DEF LogCodes, Tells
    <2> QED BY <2>1 DEF Severity
  <1>7. CASE s = "packet-loss" /\ logs = {}
    <2>1. t.services = AllRunning /\ t \in Measured
      BY <1>7, TelemetryIs DEF Damaging, Damages
    <2>2. ~Some(t, "CRASHED") /\ ~Some(t, "DEGRADED")
      BY <2>1 DEF Some, AllRunning
    <2>3. ~t.delayed
      BY <1>7, TelemetryIs
    <2>4. e \subseteq {"packet_loss", "device_active_scenario"}
      BY <1>2, <1>7, <2>2, <2>3, Signals, TelemetryIs DEF Tells, Shows
    <2> QED BY <2>4, PacketLossIsUncertain
  <1> QED BY <1>5, <1>6, <1>7

\* evaluate_health and RuleBasedDiagnosticsEngine.diagnose: whatever scenarios, restarts and
\* clearings came before, on any device, health and diagnosis fit the active scenario.
THEOREM DiagnosesFitScenarios == Spec => []DiagnosisFitsScenario
  <1>1. DeviceInv => DiagnosisFitsScenario
    BY HealthFits, CauseIsNamed, FailureEscalates DEF DiagnosisFitsScenario
  <1>2. DeviceInv /\ [Next]_vars => DeviceInv'
    BY DeviceStep
  <1> QED BY <1>1, <1>2, DeviceInit, PTL DEF Spec

----------------------------------------------------------------------------
(* what becomes of a reader *)

\* The steps that concern the topic or its readers.
ReaderActs(w) == ProcessTelemetry(w) \/ Consume(w)

LEMMA TopicSteps ==
    ASSUME [Next]_vars
    PROVE  \/ SetClock \/ TakeSnapshot \/ Die
           \/ \E n \in 1 .. MaxSnapshots : PublishTelemetry(n)
           \/ \E w \in Workers : ReaderActs(w)
           \/ UNCHANGED <<clock, producing, telemetry, processed, worker, emitted, lost>>
  <1>1. CASE Operate
    BY <1>1 DEF Operate, CallTool, RestartDevice, UpdateConfiguration, ActivateScenario,
                ClearScenario, RestartService, ReaderActs
  <1> QED BY <1>1 DEF Next, vars

\* The next event, or the end of the call.
LEMMA Proceeding ==
    ASSUME TopicType, NEW w \in Workers, Len(worker[w].todo) >= 1, Proceed(w)
    PROVE  /\ worker' = [worker EXCEPT ![w] = worker'[w]]
           /\ worker'[w] \in [pc : {"idle", "check"}, todo : Seq(Readings)]
           /\ worker'[w].pc = "check" =>
                 /\ Len(worker[w].todo) > 1
                 /\ Len(worker'[w].todo) = Len(worker[w].todo) - 1
                 /\ \A i \in 1 .. Len(worker'[w].todo) :
                       worker'[w].todo[i] = worker[w].todo[i + 1]
  <1> DEFINE todo == worker[w].todo
  <1>1. todo \in Seq(Readings) /\ worker[w].todo = todo
    BY DEF TopicType
  <1> HIDE DEF todo
  <1>2. CASE Len(todo) = 1
    BY <1>1, <1>2 DEF Proceed, TopicType, Idle
  <1>3. CASE Len(todo) # 1
    <2>1. /\ Tail(todo) \in Seq(Readings) /\ Len(Tail(todo)) = Len(todo) - 1
          /\ \A i \in 1 .. Len(Tail(todo)) : Tail(todo)[i] = todo[i + 1]
      BY <1>1, <1>3
    <2>2. worker' = [worker EXCEPT ![w] = [pc |-> "check", todo |-> Tail(todo)]]
      BY <1>1, <1>3 DEF Proceed
    <2> QED BY <1>1, <1>3, <2>1, <2>2 DEF TopicType
  <1> QED BY <1>2, <1>3

\* A thread that has published is through with its telemetry or at the next stage.
LEMMA PublishMoves ==
    ASSUME NEW w \in Workers, Publish(w)
    PROVE  \/ Proceed(w)
           \/ \E stage \in {"alert", "incident"} : worker' = [worker EXCEPT ![w].pc = stage]
  <1>1. After(Current(w), worker[w].pc) \in {"alert", "incident", "next"}
    BY DEF After
  <1> QED BY <1>1 DEF Publish

\* What a step of a thread leaves of the topic, of the other threads, and of itself.
LEMMA ReaderSteps ==
    ASSUME TopicInv, NEW w \in Workers, ReaderActs(w)
    PROVE  /\ UNCHANGED <<clock, producing, telemetry>>
           /\ processed \subseteq processed'
           /\ worker' = [worker EXCEPT ![w] = worker'[w]]
           /\ worker'[w] \in [pc : {"idle", "check"} \cup Working, todo : Seq(Readings)]
  <1> USE DEF TopicInv, TopicType
  <1>1. CASE ProcessTelemetry(w)
    BY <1>1 DEF ProcessTelemetry, TopicEvents
  <1>2. ASSUME Proceed(w), UNCHANGED <<clock, producing, telemetry, processed>>,
               worker[w].pc # "idle"
        PROVE  /\ UNCHANGED <<clock, producing, telemetry>>
               /\ processed \subseteq processed'
               /\ worker' = [worker EXCEPT ![w] = worker'[w]]
               /\ worker'[w] \in [pc : {"idle", "check"} \cup Working, todo : Seq(Readings)]
    <2>1. Len(worker[w].todo) >= 1
      BY <1>2 DEF ReaderInv, ReadsAfter
    <2> QED BY <1>2, <2>1, Proceeding
  <1>3. CASE Check(w)
    BY <1>2, <1>3 DEF Check, At, Working, Stages
  <1>4. CASE Mark(w)
    BY <1>4 DEF Mark, At, Working, Stages
  <1>5. CASE UpdateHealth(w)
    BY <1>5 DEF UpdateHealth, At, Working, Stages
  <1>6. CASE Publish(w)
    <2>1. worker[w].pc # "idle"
      BY <1>6 DEF Publish, Topic
    <2>2. CASE Proceed(w)
      BY <1>2, <1>6, <2>1, <2>2 DEF Publish
    <2>3. CASE \E stage \in {"alert", "incident"} : worker' = [worker EXCEPT ![w].pc = stage]
      BY <1>6, <2>3 DEF Publish, Working, Stages
    <2> QED BY <1>6, <2>2, <2>3, PublishMoves
  <1>7. CASE PublishFails(w)
    BY <1>7, EmptySeq DEF PublishFails, Idle
  <1> QED BY <1>1, <1>3, <1>4, <1>5, <1>6, <1>7 DEF ReaderActs, Consume

\* A snapshot says of every device what it measures, as of now or of a while ago.
LEMMA SnapshotType ==
    ASSUME DeviceInv, TopicType, NEW d \in Devices PROVE TelemetryEvent(d) \in Readings
  <1>1. TelemetryFor(d) \in Measured
    BY TelemetryIs
  <1>2. clock \in Nat /\ clock - Lag \in Nat
    BY SimulatorAssumption DEF TopicType
  <1>3. PICK t \in Nat : t = IF TelemetryFor(d).delayed THEN clock - Lag ELSE clock
    BY <1>2
  <1>4. TelemetryEvent(d) = [id |-> <<d, t>>, device |-> d, time |-> t, obs |-> TelemetryFor(d)]
    BY <1>3 DEF TelemetryEvent, EventId
  <1> QED BY <1>1, <1>4 DEF Readings, Events

LEMMA TopicTypeStep == ASSUME TopicInv, [Next]_vars PROVE TopicType'
  <1> USE DEF TopicInv
  <1>1. CASE SetClock
    BY <1>1, SimulatorAssumption DEF SetClock, TopicType
  <1>2. CASE TakeSnapshot
    BY <1>2, SnapshotType DEF TakeSnapshot, TopicType
  <1>3. ASSUME NEW n \in 1 .. MaxSnapshots, PublishTelemetry(n) PROVE TopicType'
    <2>1. PICK e \in producing[n] :
             /\ telemetry' = Append(telemetry, e)
             /\ producing' = [producing EXCEPT ![n] = @ \ {e}]
      BY <1>3 DEF PublishTelemetry
    <2>2. producing[n] \subseteq Readings /\ e \in Readings
      BY <1>3, <2>1 DEF TopicType
    <2>3. telemetry' \in Seq(Readings)
      BY <2>1, <2>2 DEF TopicType
    <2>4. producing' \in [1 .. MaxSnapshots -> SUBSET Readings]
      BY <2>1, <2>2 DEF TopicType
    <2>5. UNCHANGED <<clock, worker>>
      BY <1>3 DEF PublishTelemetry
    <2> QED BY <2>3, <2>4, <2>5 DEF TopicType
  <1>6. CASE Die
    BY <1>6, EmptySeq DEF Die, TopicType, Idle
  <1>4. ASSUME NEW w \in Workers, ReaderActs(w) PROVE TopicType'
    BY <1>4, ReaderSteps DEF TopicType
  <1>5. CASE UNCHANGED <<clock, producing, telemetry, processed, worker, emitted, lost>>
    BY <1>5 DEF TopicType
  <1> QED BY <1>1, <1>2, <1>3, <1>4, <1>5, <1>6, TopicSteps

\* Where a thread stands after its own step: at the next event, for which it has seen to it
\* that the current one is processed, or at the work on one that nobody had processed.
LEMMA ReaderStep ==
    ASSUME TopicInv, NEW w \in Workers, ReaderActs(w), worker'[w].pc # "idle"
    PROVE  /\ \E n \in Nat : ReadsAfter(w, n)'
           /\ worker'[w].pc \in {"update"} \cup Stages => Current(w)'.id \in processed'
  <1> USE DEF TopicInv, TopicType
  <1> DEFINE todo == worker[w].todo
  <1>1. CASE ProcessTelemetry(w)
    <2>1. worker'[w] = [pc |-> "check", todo |-> telemetry] /\ UNCHANGED <<telemetry, processed>>
      BY <1>1 DEF ProcessTelemetry, TopicEvents
    <2>2. Len(telemetry) >= 1
      BY <1>1 DEF ProcessTelemetry
    <2>3. ReadsAfter(w, 0)'
      BY <2>1, <2>2 DEF ReadsAfter, Working, Stages
    <2> QED BY <2>1, <2>3 DEF Stages
  <1>2. CASE Consume(w)
    <2>1. worker[w].pc # "idle"
      BY <1>2 DEF Consume, Check, Mark, UpdateHealth, Publish, PublishFails, At, Topic
    <2>2. PICK n \in Nat : ReadsAfter(w, n)
      BY <2>1 DEF ReaderInv
    <2>3. /\ Len(todo) >= 1 /\ n + Len(todo) <= Len(telemetry)
          /\ \A i \in 1 .. Len(todo) : todo[i] = telemetry[n + i]
          /\ \A j \in 1 .. n : telemetry[j].id \in processed
      BY <2>2 DEF ReadsAfter
    <2>4. todo \in Seq(Readings) /\ Current(w) = telemetry[n + 1] /\ todo[1] = telemetry[n + 1]
      <3>1. todo \in Seq(Readings)
        OBVIOUS
      <3> QED BY <2>3, <3>1 DEF Current
    <2>5. processed \subseteq processed' /\ telemetry' = telemetry
      BY ReaderSteps
    <2>6. ASSUME Proceed(w), telemetry[n + 1].id \in processed'
          PROVE  ReadsAfter(w, n + 1)' /\ worker'[w].pc = "check"
      <3>1. /\ worker'[w].pc = "check" /\ Len(todo) > 1
            /\ Len(worker'[w].todo) = Len(todo) - 1
            /\ \A i \in 1 .. Len(worker'[w].todo) : worker'[w].todo[i] = todo[i + 1]
        BY <2>3, <2>6, Proceeding
      <3>2. Len(todo) \in Nat
        BY <2>4
      <3>3. \A i \in 1 .. Len(worker'[w].todo) : worker'[w].todo[i] = telemetry'[(n + 1) + i]
        <4> SUFFICES ASSUME NEW i \in 1 .. Len(worker'[w].todo)
                     PROVE  worker'[w].todo[i] = telemetry'[(n + 1) + i]
          OBVIOUS
        <4>1. i + 1 \in 1 .. Len(todo) /\ n + (i + 1) = (n + 1) + i
          BY <3>1, <3>2
        <4>2. todo[i + 1] = telemetry[n + (i + 1)]
          BY <2>3, <4>1
        <4> QED BY <2>5, <3>1, <4>1, <4>2
      <3>4. \A j \in 1 .. n + 1 : telemetry'[j].id \in processed'
        BY <2>3, <2>5, <2>6
      <3>5. /\ Len(worker'[w].todo) >= 1
            /\ (n + 1) + Len(worker'[w].todo) <= Len(telemetry')
        <4>1. PICK length, left \in Nat : length = Len(telemetry) /\ left = Len(todo)
          BY <3>2
        <4>2. n + left <= length /\ left > 1 /\ Len(worker'[w].todo) = left - 1
          BY <2>3, <3>1, <4>1
        <4>3. left - 1 >= 1 /\ (n + 1) + (left - 1) <= length
          BY <4>2
        <4> QED BY <2>5, <4>1, <4>2, <4>3
      <3>6. worker'[w].pc \notin Working
        BY <3>1 DEF Working, Stages
      <3> QED BY <3>1, <3>3, <3>4, <3>5, <3>6 DEF ReadsAfter
    <2>7. ASSUME worker'[w].todo = todo,
                 \/ worker[w].pc \in Working
                 \/ telemetry[n + 1].id \notin processed
          PROVE  ReadsAfter(w, n)' /\ Current(w)' = Current(w)
      <3>1. \A j \in 1 .. n : telemetry[j].id # telemetry[n + 1].id
        BY <2>2, <2>3, <2>7 DEF ReadsAfter
      <3> QED BY <2>3, <2>5, <2>7, <3>1 DEF ReadsAfter, Current
    <2>8. CASE Check(w)
      <3>1. CASE Current(w).id \in processed
        <4>1. Proceed(w) /\ telemetry[n + 1].id \in processed'
          BY <2>4, <2>5, <2>8, <3>1 DEF Check
        <4>2. ReadsAfter(w, n + 1)' /\ worker'[w].pc = "check"
          BY <2>6, <4>1
        <4>3. n + 1 \in Nat
          OBVIOUS
        <4> QED BY <4>2, <4>3 DEF Stages
      <3>2. CASE Current(w).id \notin processed
        <4>1. worker'[w].pc = "mark" /\ worker'[w].todo = todo
          BY <2>8, <3>2 DEF Check
        <4> QED BY <2>4, <2>7, <3>2, <4>1 DEF Stages
      <3> QED BY <3>1, <3>2
    <2>9. CASE Mark(w)
      <3>1. /\ worker[w].pc \in Working /\ worker'[w].todo = todo
            /\ Current(w).id \in processed'
        BY <2>9 DEF Mark, At, Working, Stages
      <3> QED BY <2>7, <3>1
    <2>10. CASE UpdateHealth(w)
      <3>1. /\ worker[w].pc \in Working /\ worker'[w].todo = todo
            /\ worker[w].pc = "update"
        BY <2>10 DEF UpdateHealth, At, Working, Stages
      <3>2. Current(w).id \in processed
        BY <3>1 DEF ReaderInv
      <3> QED BY <2>5, <2>7, <3>1, <3>2
    <2>11. CASE Publish(w)
      <3>1. worker[w].pc \in Stages /\ Current(w).id \in processed
        BY <2>11 DEF ReaderInv, Publish, Topic, Stages
      <3>2. CASE Proceed(w)
        <4>1. ReadsAfter(w, n + 1)' /\ worker'[w].pc = "check"
          BY <2>4, <2>5, <2>6, <3>1, <3>2
        <4> QED BY <4>1 DEF Stages
      <3>3. CASE \E stage \in {"alert", "incident"} : worker' = [worker EXCEPT ![w].pc = stage]
        <4>1. worker'[w].todo = todo /\ worker[w].pc \in Working
          BY <3>1, <3>3 DEF Working, Stages
        <4> QED BY <2>5, <2>7, <3>1, <4>1
      <3> QED BY <2>11, <3>2, <3>3, PublishMoves
    <2>12. CASE PublishFails(w)
      BY <2>12 DEF PublishFails, Idle
    <2> QED BY <1>2, <2>8, <2>9, <2>10, <2>11, <2>12 DEF Consume
  <1> QED BY <1>1, <1>2 DEF ReaderActs

\* The topic is only appended to and ids stay processed, so the other threads stand where
\* they stood.
LEMMA OthersRead ==
    ASSUME TopicInv, NEW w \in Workers, worker'[w] = worker[w], worker[w].pc # "idle",
           processed \subseteq processed',
           \/ telemetry' = telemetry
           \/ \E e \in Readings : telemetry' = Append(telemetry, e)
    PROVE  /\ \E n \in Nat : ReadsAfter(w, n)'
           /\ worker'[w].pc \in {"update"} \cup Stages => Current(w)'.id \in processed'
  <1> USE DEF TopicInv, TopicType
  <1>1. PICK n \in Nat : ReadsAfter(w, n)
    BY DEF ReaderInv
  <1>2. Len(telemetry') >= Len(telemetry)
        /\ \A i \in 1 .. Len(telemetry) : telemetry'[i] = telemetry[i]
    OBVIOUS
  <1>3. worker[w].todo \in Seq(Readings) /\ Len(worker[w].todo) \in Nat
    OBVIOUS
  <1>4. ReadsAfter(w, n)'
    <2>1. /\ Len(worker[w].todo) >= 1 /\ n + Len(worker[w].todo) <= Len(telemetry)
          /\ \A i \in 1 .. Len(worker[w].todo) : worker[w].todo[i] = telemetry[n + i]
          /\ \A j \in 1 .. n :
                /\ telemetry[j].id \in processed
                /\ worker[w].pc \in Working => telemetry[j].id # telemetry[n + 1].id
      BY <1>1 DEF ReadsAfter
    <2>2. Len(telemetry) \in Nat /\ Len(telemetry') \in Nat
      OBVIOUS
    <2>3. n + Len(worker[w].todo) <= Len(telemetry')
      BY <1>2, <1>3, <2>1, <2>2
    <2>4. \A j \in 1 .. n + Len(worker[w].todo) : telemetry'[j] = telemetry[j]
      BY <1>2, <1>3, <2>1, <2>2
    <2>5. telemetry'[n + 1] = telemetry[n + 1]
          /\ (\A j \in 1 .. n : telemetry'[j] = telemetry[j])
          /\ \A i \in 1 .. Len(worker[w].todo) : telemetry'[n + i] = telemetry[n + i]
      BY <1>3, <2>1, <2>4
    <2> QED BY <2>1, <2>3, <2>5 DEF ReadsAfter
  <1> QED BY <1>4 DEF ReaderInv, Current

LEMMA TopicStep == ASSUME TopicInv, [Next]_vars PROVE TopicInv'
  <1> DEFINE Stands(v) ==
               worker[v].pc # "idle" =>
                  /\ \E n \in Nat : ReadsAfter(v, n)
                  /\ worker[v].pc \in {"update"} \cup Stages => Current(v).id \in processed
  <1>0. ASSUME \A v \in Workers : Stands(v)' PROVE ReaderInv'
    BY <1>0 DEF ReaderInv
  <1>1. DeviceInv' /\ TopicType'
    BY DeviceStep, TopicTypeStep DEF TopicInv
  <1> HIDE DEF Stands
  <1>2. ASSUME NEW w \in Workers, ReaderActs(w) PROVE ReaderInv'
    <2>1. /\ UNCHANGED telemetry /\ processed \subseteq processed'
          /\ \A v \in Workers \ {w} : worker'[v] = worker[v]
      BY <1>2, ReaderSteps DEF TopicInv, TopicType
    <2>2. Stands(w)'
      BY <1>2, ReaderStep DEF Stands
    <2>3. ASSUME NEW v \in Workers \ {w} PROVE Stands(v)'
      <3>1. worker'[v] = worker[v]
        BY <2>1
      <3> QED BY <2>1, <3>1, OthersRead DEF Stands
    <2> QED BY <1>0, <2>2, <2>3
  <1>3. ASSUME NEW n \in 1 .. MaxSnapshots, PublishTelemetry(n) PROVE ReaderInv'
    <2>1. /\ \E e \in Readings : telemetry' = Append(telemetry, e)
          /\ UNCHANGED <<worker, processed>>
      BY <1>3 DEF PublishTelemetry, TopicInv, TopicType
    <2>2. ASSUME NEW v \in Workers PROVE Stands(v)'
      <3>1. worker'[v] = worker[v] /\ processed \subseteq processed'
        BY <2>1
      <3> QED BY <2>1, <3>1, OthersRead DEF Stands
    <2> QED BY <1>0, <2>2
  <1>5. CASE Die
    BY <1>1, <1>5 DEF Die, TopicInv, ReaderInv, Idle
  <1>4. CASE UNCHANGED <<telemetry, worker, processed>>
    <2>1. ASSUME NEW v \in Workers PROVE Stands(v)'
      <3>1. worker'[v] = worker[v] /\ processed \subseteq processed' /\ telemetry' = telemetry
        BY <1>4
      <3> QED BY <3>1, OthersRead DEF Stands
    <2> QED BY <1>0, <1>1, <2>1 DEF TopicInv
  <1> QED BY <1>1, <1>2, <1>3, <1>4, <1>5, TopicSteps DEF TopicInv, SetClock, TakeSnapshot

LEMMA TopicInit == Init => TopicInv
  BY DeviceInit, SimulatorAssumption, EmptySeq DEF Init, TopicInv, TopicType, ReaderInv, Idle

----------------------------------------------------------------------------
(* what is announced *)

HealthOf(e) == Event(e, "health")
AlertOf(e) == Event(e, "alert")
IncidentOf(e) == Event(e, "incident")

\* What is published at a stage.
LEMMA EventIs ==
    ASSUME NEW e
    PROVE  /\ HealthOf(e).topic = "device.health" /\ HealthOf(e).value = EvaluateHealth(e.obs)
           /\ AlertOf(e).topic = "device.alert" /\ AlertOf(e).value = AlertReason(e.obs)
           /\ IncidentOf(e).topic = "incident.created"
           /\ IncidentOf(e).value = AlertReason(e.obs)
           /\ \A stage \in Stages : /\ Event(e, stage).device = e.device
                                    /\ Event(e, stage).time = e.time
  BY DEF HealthOf, AlertOf, IncidentOf, Event, Topic, Stages

\* A thread publishes the event of the stage it has reached, and leaves that stage.
Publishes(w) ==
    /\ worker[w].pc \in Stages /\ worker'[w].pc \in {"idle", "check", "alert", "incident"}
    /\ UNCHANGED processed
    /\ Emit(Event(Current(w), worker[w].pc))

LEMMA PublishSteps ==
    ASSUME TopicInv, NEW w \in Workers, ReaderActs(w)
    PROVE  lost \subseteq lost' /\ (Publishes(w) \/ UNCHANGED emitted)
  <1>1. CASE Publish(w)
    <2>0. worker[w].pc \in Stages
      BY <1>1 DEF Publish, Topic, Stages
    <2>1. CASE Proceed(w)
      <3>1. worker'[w].pc \in {"idle", "check"}
        BY <2>0, <2>1, Proceeding DEF TopicInv, ReaderInv, ReadsAfter, Stages
      <3> QED BY <1>1, <2>0, <3>1 DEF Publish, Publishes
    <2>2. CASE \E stage \in {"alert", "incident"} : worker' = [worker EXCEPT ![w].pc = stage]
      <3>1. worker'[w].pc \in {"alert", "incident"}
        BY <2>2 DEF TopicInv, TopicType
      <3> QED BY <1>1, <2>0, <3>1 DEF Publish, Publishes
    <2> QED BY <1>1, <2>1, <2>2, PublishMoves
  <1>2. CASE PublishFails(w)
    BY <1>2 DEF PublishFails, Publishes, TopicInv, TopicType, Idle, Topic, Stages
  <1>3. CASE ProcessTelemetry(w) \/ Check(w) \/ Mark(w) \/ UpdateHealth(w)
    BY <1>3 DEF ProcessTelemetry, Check, Mark, UpdateHealth
  <1> QED BY <1>1, <1>2, <1>3 DEF ReaderActs, Consume

\* A thread that works on an event works on the first one of its id.
LEMMA WorksOnFirst ==
    ASSUME TopicInv, NEW w \in Workers, worker[w].pc \in Working
    PROVE  /\ Current(w).id = <<Current(w).device, Current(w).time>>
           /\ \E i \in DOMAIN telemetry : telemetry[i] = Current(w) /\ IsFirst(i)
  <1>1. PICK n \in Nat : ReadsAfter(w, n)
    BY DEF TopicInv, ReaderInv, Working, Stages
  <1>2. worker[w].todo \in Seq(Readings) /\ telemetry \in Seq(Readings)
    BY DEF TopicInv, TopicType
  <1>3. Current(w) = telemetry[n + 1] /\ n + 1 \in DOMAIN telemetry
    BY <1>1, <1>2 DEF ReadsAfter, Current
  <1>4. IsFirst(n + 1)
    BY <1>1, <1>3 DEF ReadsAfter, IsFirst
  <1>5. telemetry[n + 1] \in Readings
    BY <1>2, <1>3
  <1> QED BY <1>3, <1>4, <1>5 DEF Readings

LEMMA FirstStep == ASSUME TopicInv, FirstInv, [Next]_vars PROVE FirstInv'
  <1>1. ASSUME UNCHANGED <<telemetry, emitted>> PROVE FirstInv'
    BY <1>1 DEF FirstInv, IsFirst
  <1>2. ASSUME NEW n \in 1 .. MaxSnapshots, PublishTelemetry(n) PROVE FirstInv'
    <2>1. PICK e \in Readings : telemetry' = Append(telemetry, e)
      BY <1>2 DEF PublishTelemetry, TopicInv, TopicType
    <2>2. /\ DOMAIN telemetry \subseteq DOMAIN telemetry'
          /\ \A i \in DOMAIN telemetry : /\ i \in Nat /\ telemetry'[i] = telemetry[i]
                                        /\ 1 .. (i - 1) \subseteq DOMAIN telemetry
      BY <2>1 DEF TopicInv, TopicType
    <2>3. \A i \in DOMAIN telemetry : IsFirst(i) => IsFirst(i)'
      BY <2>2 DEF IsFirst
    <2> QED BY <1>2, <2>2, <2>3 DEF FirstInv, PublishTelemetry
  <1>3. ASSUME NEW w \in Workers, ReaderActs(w) PROVE FirstInv'
    <2>1. UNCHANGED telemetry
      BY <1>3, ReaderSteps
    <2>2. CASE Publishes(w)
      <3>1. worker[w].pc \in Stages /\ DOMAIN emitted' = DOMAIN emitted
                                          \cup {Event(Current(w), worker[w].pc)}
        BY <2>2 DEF Publishes, Emit
      <3>2. PICK k \in DOMAIN telemetry : telemetry[k] = Current(w) /\ IsFirst(k)
        BY <2>2, WorksOnFirst DEF Publishes, Working, Stages
      <3>3. Current(w).id = <<Current(w).device, Current(w).time>>
        BY <2>2, WorksOnFirst DEF Publishes, Working, Stages
      <3>4. SUFFICES ASSUME NEW e \in DOMAIN emitted', e.topic = "device.health"
                     PROVE  \E i \in DOMAIN telemetry' :
                               /\ telemetry'[i].id = <<e.device, e.time>> /\ IsFirst(i)'
                               /\ e.value = EvaluateHealth(telemetry'[i].obs)
        BY DEF FirstInv
      <3>5. e \in DOMAIN emitted \/ e = Event(Current(w), worker[w].pc)
        BY <3>1
      <3>6. CASE e \in DOMAIN emitted
        BY <2>1, <3>4, <3>6 DEF FirstInv, IsFirst
      <3>7. CASE e = Event(Current(w), worker[w].pc)
        <4>1. e = HealthOf(Current(w))
          BY <3>1, <3>4, <3>7, EventIs DEF HealthOf, AlertOf, IncidentOf, Stages
        <4>2. e.device = Current(w).device /\ e.time = Current(w).time
              /\ e.value = EvaluateHealth(Current(w).obs)
          BY <3>1, <3>7, <4>1, EventIs
        <4> QED BY <2>1, <3>2, <3>3, <4>2 DEF IsFirst
      <3> QED BY <3>5, <3>6, <3>7
    <2> QED BY <1>1, <1>3, <2>1, <2>2, PublishSteps
  <1> QED BY <1>1, <1>2, <1>3, TopicSteps DEF SetClock, TakeSnapshot, Die

\* Who works on an id, is a thread.
LEMMA HoldingSize ==
    ASSUME NEW id
    PROVE  /\ IsFiniteSet(Holding(id)) /\ Cardinality(Holding(id)) \in Nat
           /\ Cardinality(Holding(id)) <= Cardinality(Workers) /\ Cardinality(Workers) \in Nat
  <1>1. Holding(id) \subseteq Workers /\ IsFiniteSet(Workers)
    BY SimulatorAssumption DEF Holding
  <1> QED BY <1>1, FS_Subset, FS_CardinalityType

\* An id that is processed gets nobody new to work on it.
LEMMA NobodyNew ==
    ASSUME TopicInv, NEW w \in Workers, ReaderActs(w), NEW id \in processed
    PROVE  Holding(id)' \subseteq Holding(id)
  <1>1. worker' = [worker EXCEPT ![w] = worker'[w]] /\ worker \in [Workers -> Range(worker)]
    BY ReaderSteps DEF TopicInv, TopicType, Range
  <1> DEFINE Announcing == {"mark", "update", "health"}
  <1>2. worker'[w].pc \in Announcing /\ Current(w)'.id = id =>
           worker[w].pc \in Announcing /\ Current(w).id = id
    <2>1. CASE ProcessTelemetry(w)
      BY <1>1, <2>1 DEF ProcessTelemetry
    <2>2. CASE Check(w) /\ Current(w).id \in processed
      <3>1. worker[w].pc # "idle" /\ Proceed(w)
        BY <2>2 DEF Check, At
      <3> QED BY <3>1, Proceeding DEF TopicInv, ReaderInv, ReadsAfter
    <2>3. CASE Check(w) /\ Current(w).id \notin processed
      <3>1. worker' = [worker EXCEPT ![w].pc = "mark"]
        BY <2>3 DEF Check
      <3>2. worker'[w].todo = worker[w].todo
        BY <3>1 DEF TopicInv, TopicType
      <3>3. Current(w)' = Current(w)
        BY <3>2 DEF Current
      <3> QED BY <2>3, <3>3
    <2>4. CASE Mark(w)
      BY <1>1, <2>4 DEF Mark, At, Current
    <2>5. CASE UpdateHealth(w)
      BY <1>1, <2>5 DEF UpdateHealth, At, Current
    <2>6. CASE UNCHANGED emitted /\ PublishFails(w)
      BY <1>1, <2>6 DEF PublishFails, Idle
    <2>7. CASE Publishes(w)
      BY <2>7 DEF Publishes
    <2>8. CASE Publish(w)
      <3>1. worker[w].pc \in Stages
        BY <2>8 DEF Publish, Topic, Stages
      <3>2. CASE Proceed(w)
        BY <3>1, <3>2, Proceeding DEF TopicInv, ReaderInv, ReadsAfter, Stages
      <3>3. CASE \E stage \in {"alert", "incident"} : worker' = [worker EXCEPT ![w].pc = stage]
        BY <1>1, <3>3
      <3> QED BY <2>8, <3>2, <3>3, PublishMoves
    <2> QED BY <2>1, <2>2, <2>3, <2>4, <2>5, <2>6, <2>7, <2>8, PublishSteps
            DEF ReaderActs, Consume
  <1>3. \A v \in Workers \ {w} : worker'[v] = worker[v] /\ Current(v)' = Current(v)
    BY <1>1 DEF Current
  <1> QED BY <1>2, <1>3 DEF Holding

LEMMA CountStep == ASSUME TopicInv, CountInv, [Next]_vars PROVE CountInv'
  <1>1. ASSUME UNCHANGED <<worker, processed, emitted>> PROVE CountInv'
    BY <1>1 DEF CountInv, Holding, Current
  <1>2. ASSUME NEW w \in Workers, ReaderActs(w) PROVE CountInv'
    <2>1. processed \subseteq processed'
      BY <1>2, ReaderSteps
    <2>2. SUFFICES ASSUME NEW e \in DOMAIN emitted', e.topic = "device.health",
                          NEW id, id = <<e.device, e.time>>
                   PROVE  /\ id \in processed' /\ emitted'[e] \in Nat
                          /\ emitted'[e] + Cardinality(Holding(id)') <= Cardinality(Workers)
      BY DEF CountInv
    <2>3. ASSUME e \in DOMAIN emitted
          PROVE  /\ id \in processed /\ emitted[e] \in Nat
                 /\ emitted[e] + Cardinality(Holding(id)) <= Cardinality(Workers)
                 /\ Cardinality(Holding(id)') <= Cardinality(Holding(id))
                 /\ Cardinality(Holding(id)') \in Nat
      <3>1. /\ id \in processed /\ emitted[e] \in Nat
            /\ emitted[e] + Cardinality(Holding(id)) <= Cardinality(Workers)
        BY <2>2, <2>3 DEF CountInv
      <3>2. Holding(id)' \subseteq Holding(id)
        BY <1>2, <3>1, NobodyNew
      <3> QED BY <3>1, <3>2, HoldingSize, FS_Subset, FS_CardinalityType
    <2>4. CASE UNCHANGED emitted
      BY <2>1, <2>2, <2>3, <2>4, HoldingSize
    <2>5. CASE Publishes(w)
      <3> DEFINE new == Event(Current(w), worker[w].pc)
      <3>1. /\ worker[w].pc \in Stages
            /\ worker'[w].pc \in {"idle", "check", "alert", "incident"}
        BY <2>5 DEF Publishes
      <3>2. /\ Current(w).id \in processed
            /\ Current(w).id = <<Current(w).device, Current(w).time>>
        BY <3>1, WorksOnFirst DEF TopicInv, ReaderInv, Working, Stages
      <3>3. /\ e \in DOMAIN emitted \cup {new}
            /\ emitted'[e] = Count(e) + (IF e = new THEN 1 ELSE 0)
        BY <2>2, <2>5 DEF Publishes, Emit
      <3>4. CASE e # new
        BY <2>1, <2>3, <3>3, <3>4, HoldingSize DEF Count
      <3>5. CASE e = new
        <4>1. e = HealthOf(Current(w)) /\ worker[w].pc = "health"
          BY <2>2, <3>1, <3>5, EventIs DEF HealthOf, AlertOf, IncidentOf, Stages
        <4>2. id = Current(w).id
          BY <2>2, <3>1, <3>2, <3>5, EventIs
        <4>3. w \in Holding(id) /\ Holding(id)' \subseteq Holding(id) \ {w}
          BY <1>2, <3>1, <3>2, <4>1, <4>2, NobodyNew DEF Holding
        <4>4. /\ Cardinality(Holding(id)') <= Cardinality(Holding(id) \ {w})
              /\ Cardinality(Holding(id) \ {w}) = Cardinality(Holding(id)) - 1
              /\ Cardinality(Holding(id)') \in Nat
          <5>1. /\ IsFiniteSet(Holding(id) \ {w})
                /\ Cardinality(Holding(id) \ {w}) = Cardinality(Holding(id)) - 1
            BY <4>3, HoldingSize, FS_RemoveElement
          <5> QED BY <4>3, <5>1, FS_Subset, FS_CardinalityType
        <4>5. id \in processed'
          BY <2>1, <3>2, <4>2
        <4>6. CASE e \in DOMAIN emitted
          <5>1. emitted'[e] = emitted[e] + 1
            BY <3>3, <3>5, <4>6 DEF Count
          <5> QED BY <2>3, <4>4, <4>5, <4>6, <5>1, HoldingSize
        <4>7. CASE e \notin DOMAIN emitted
          <5>1. emitted'[e] = 1
            BY <3>3, <3>5, <4>7 DEF Count
          <5> QED BY <4>4, <4>5, <5>1, HoldingSize
        <4> QED BY <4>6, <4>7
      <3> QED BY <3>4, <3>5
    <2> QED BY <1>2, <2>4, <2>5, PublishSteps
  <1>3. CASE Die
    <2>1. /\ UNCHANGED <<processed, emitted>>
          /\ \A id : Holding(id)' = {}
      BY <1>3 DEF Die, Holding, Idle
    <2>2. \A id : Cardinality(Holding(id)') = 0 /\ Cardinality(Holding(id)) \in Nat
      BY <2>1, FS_EmptySet, HoldingSize
    <2> QED BY <2>1, <2>2, HoldingSize DEF CountInv
  <1> QED BY <1>1, <1>2, <1>3, TopicSteps DEF SetClock, TakeSnapshot, PublishTelemetry

\* event_id, topic_events and _processed_ids: for any number of threads and calls, the first
\* telemetry of a device and an instant is the one whose health is announced, and no more
\* often than there are threads, although the ids are checked and added to unlocked.
THEOREM FirstTelemetryIsAnnounced == Spec => []FirstTelemetryWins
  <1>1. Init => AnnouncedInv
    BY TopicInit DEF Init, AnnouncedInv, FirstInv, CountInv
  <1>2. AnnouncedInv /\ [Next]_vars => AnnouncedInv'
    BY TopicStep, FirstStep, CountStep DEF AnnouncedInv
  <1>3. AnnouncedInv => FirstTelemetryWins
    <2> SUFFICES ASSUME AnnouncedInv, NEW i \in DOMAIN telemetry, IsFirst(i),
                        NEW e \in HealthEvents(telemetry[i].id)
                 PROVE  /\ e.value = EvaluateHealth(telemetry[i].obs)
                        /\ emitted[e] <= Cardinality(Workers)
      BY DEF FirstTelemetryWins, IsFirst
    <2>1. /\ e \in DOMAIN emitted /\ e.topic = "device.health"
          /\ <<e.device, e.time>> = telemetry[i].id
      BY DEF HealthEvents
    <2>2. PICK k \in DOMAIN telemetry :
             /\ telemetry[k].id = telemetry[i].id /\ IsFirst(k)
             /\ e.value = EvaluateHealth(telemetry[k].obs)
      BY <2>1 DEF AnnouncedInv, FirstInv
    <2>3. i \in Nat /\ k \in Nat /\ i >= 1 /\ k >= 1
      BY DEF AnnouncedInv, TopicInv, TopicType
    <2>4. i = k
      BY <2>2, <2>3 DEF IsFirst
    <2>5. emitted[e] <= Cardinality(Workers)
      BY <2>1, HoldingSize DEF AnnouncedInv, CountInv
    <2> QED BY <2>2, <2>4, <2>5
  <1> QED BY <1>1, <1>2, <1>3, PTL DEF Spec

\* A thread has published the stages it has passed, and gets to the incident only for a
\* critical device.
StageInv ==
    \A w \in Workers :
        LET e == Current(w) IN
        /\ worker[w].pc \in {"alert", "incident"} => HealthOf(e) \in DOMAIN emitted
        /\ worker[w].pc = "incident" => /\ AlertOf(e) \in DOMAIN emitted
                                        /\ EvaluateHealth(e.obs) = "CRITICAL"

\* The events on a topic of one telemetry event, the threads about to publish its incident,
\* and what an announced event must have.
On(topic, id) == {o \in DOMAIN emitted : o.topic = topic /\ <<o.device, o.time>> = id}

AboutTo(w, id) ==
    /\ worker[w].pc \in {"alert", "incident"} /\ Current(w).id = id
    /\ EvaluateHealth(Current(w).obs) = "CRITICAL"

Belongs(e, id) ==
    /\ e.topic = "device.health" /\ e.value = "CRITICAL" /\ id \notin lost
       => \/ \E o \in DOMAIN emitted : o \in On("incident.created", id)
          \/ \E w \in Workers : AboutTo(w, id)
    /\ e.topic = "incident.created" =>
          /\ \E a \in On("device.alert", id) : a.value = e.value
          /\ \E h \in On("device.health", id) : h.value = "CRITICAL"

CriticalInv == \A e \in DOMAIN emitted : Belongs(e, <<e.device, e.time>>)

\* What a thread that publishes does: it emits the event of its stage, and then reaches the
\* next stage with the same telemetry, or is through with it, or the publisher has raised.
LEMMA StageMoves ==
    ASSUME TopicInv, NEW w \in Workers, ReaderActs(w), worker[w].pc \in Stages
    PROVE  LET e == Current(w)
               after == After(e, worker[w].pc)
           IN  \/ /\ Emit(Event(e, worker[w].pc))
                  /\ after # "next" /\ worker'[w].pc = after /\ Current(w)' = e
               \/ /\ Emit(Event(e, worker[w].pc))
                  /\ after = "next" /\ worker'[w].pc \in {"idle", "check"}
               \/ e.id \in lost' /\ worker'[w].pc = "idle"
  <1>1. CASE Publish(w)
    <2>1. CASE After(Current(w), worker[w].pc) = "next"
      BY <1>1, <2>1, Proceeding DEF Publish, TopicInv, ReaderInv, ReadsAfter, Stages
    <2>2. CASE After(Current(w), worker[w].pc) # "next"
      <3>1. worker'[w] = [worker[w] EXCEPT !.pc = After(Current(w), worker[w].pc)]
        BY <1>1, <2>2 DEF Publish, TopicInv, TopicType
      <3>2. worker'[w].pc = After(Current(w), worker[w].pc) /\ Current(w)' = Current(w)
        BY <3>1 DEF TopicInv, TopicType, Current
      <3> QED BY <1>1, <2>2, <3>2 DEF Publish
    <2> QED BY <2>1, <2>2
  <1>2. CASE PublishFails(w)
    BY <1>2 DEF PublishFails, TopicInv, TopicType, Idle
  <1> QED BY <1>1, <1>2 DEF ReaderActs, Consume, ProcessTelemetry, Check, Mark, UpdateHealth,
                            At, Stages

\* A thread comes to the later stages by publishing the ones before.
LEMMA StageEntered ==
    ASSUME TopicInv, NEW w \in Workers, ReaderActs(w), worker'[w].pc \in {"alert", "incident"}
    PROVE  worker[w].pc \in Stages
  <1> USE DEF TopicInv, TopicType
  <1>1. CASE ProcessTelemetry(w)
    BY <1>1 DEF ProcessTelemetry
  <1>2. CASE Check(w)
    <2>1. CASE Proceed(w)
      BY <1>2, <2>1, Proceeding DEF Check, At, ReaderInv, ReadsAfter
    <2> QED BY <1>2, <2>1 DEF Check
  <1>3. CASE Mark(w) \/ UpdateHealth(w)
    BY <1>3 DEF Mark, UpdateHealth
  <1>4. CASE Publish(w) \/ PublishFails(w)
    BY <1>4 DEF Publish, PublishFails, Topic, Stages
  <1> QED BY <1>1, <1>2, <1>3, <1>4 DEF ReaderActs, Consume

\* What was published stays published.
LEMMA EmittedGrows ==
    ASSUME TopicInv, [Next]_vars
    PROVE  DOMAIN emitted \subseteq DOMAIN emitted' /\ lost \subseteq lost'
  BY TopicSteps, PublishSteps DEF Publishes, Emit, SetClock, TakeSnapshot, PublishTelemetry, Die

LEMMA StageStep == ASSUME TopicInv, StageInv, [Next]_vars PROVE StageInv'
  <1>1. DOMAIN emitted \subseteq DOMAIN emitted'
    BY EmittedGrows
  <1>2. CASE UNCHANGED worker
    BY <1>1, <1>2 DEF StageInv, Current, HealthOf, AlertOf
  <1>3. CASE Die
    BY <1>3 DEF Die, StageInv, Idle
  <1>4. ASSUME NEW w \in Workers, ReaderActs(w) PROVE StageInv'
    <2>1. \A v \in Workers \ {w} : worker'[v] = worker[v] /\ Current(v)' = Current(v)
      BY <1>4, ReaderSteps DEF TopicInv, TopicType, Current
    <2>2. ASSUME worker'[w].pc \in {"alert", "incident"}
          PROVE  LET e == Current(w)' IN
                 /\ HealthOf(e) \in DOMAIN emitted'
                 /\ worker'[w].pc = "incident" => /\ AlertOf(e) \in DOMAIN emitted'
                                                  /\ EvaluateHealth(e.obs) = "CRITICAL"
      <3> DEFINE e == Current(w)
      <3>1. worker[w].pc \in Stages
        BY <1>4, <2>2, StageEntered
      <3>2. /\ Emit(Event(e, worker[w].pc)) /\ Current(w)' = e
            /\ worker'[w].pc = After(e, worker[w].pc)
        BY <1>4, <2>2, <3>1, StageMoves
      <3>3. Event(e, worker[w].pc) \in DOMAIN emitted'
        BY <3>2 DEF Emit
      <3>4. \/ worker[w].pc = "health" /\ worker'[w].pc = "alert"
            \/ /\ worker[w].pc = "alert" /\ worker'[w].pc = "incident"
               /\ EvaluateHealth(e.obs) = "CRITICAL"
        BY <2>2, <3>1, <3>2 DEF After, Stages
      <3> QED BY <1>1, <3>2, <3>3, <3>4 DEF StageInv, HealthOf, AlertOf
    <2> QED BY <1>1, <2>1, <2>2 DEF StageInv
  <1> QED BY <1>2, <1>3, <1>4, TopicSteps DEF SetClock, TakeSnapshot, PublishTelemetry

\* A thread about to publish an incident does so, or the publisher raises.
LEMMA AboutToStep ==
    ASSUME TopicInv, [Next]_vars, NEW v \in Workers, NEW id, AboutTo(v, id),
           \A e : Current(v) = e /\ e.id = id => id = <<e.device, e.time>>
    PROVE  \/ id \in lost' \/ AboutTo(v, id)'
           \/ \E o \in DOMAIN emitted' : o \in On("incident.created", id)'
  <1>1. CASE UNCHANGED worker
    BY <1>1 DEF AboutTo, Current
  <1>2. CASE Die
    BY <1>2 DEF Die, Publishing, AboutTo, Topic
  <1>3. ASSUME NEW w \in Workers, ReaderActs(w), w # v PROVE AboutTo(v, id)'
    BY <1>3, ReaderSteps DEF TopicInv, TopicType, AboutTo, Current
  <1>4. CASE ReaderActs(v)
    <2> DEFINE e == Current(v)
    <2>1. /\ worker[v].pc \in {"alert", "incident"} /\ worker[v].pc \in Stages
          /\ e.id = id /\ EvaluateHealth(e.obs) = "CRITICAL" /\ id = <<e.device, e.time>>
      BY DEF AboutTo, Stages
    <2>2. CASE worker[v].pc = "alert"
      <3>1. After(e, worker[v].pc) = "incident"
        BY <2>1, <2>2 DEF After
      <3>2. e.id \in lost' \/ (worker'[v].pc = "incident" /\ Current(v)' = e)
        BY <1>4, <2>1, <3>1, StageMoves
      <3> QED BY <2>1, <3>2 DEF AboutTo
    <2>3. CASE worker[v].pc = "incident"
      <3>1. e.id \in lost' \/ Emit(IncidentOf(e))
        BY <1>4, <2>1, <2>3, StageMoves DEF IncidentOf
      <3>2. CASE Emit(IncidentOf(e))
        <4>1. IncidentOf(e) \in DOMAIN emitted'
          BY <3>2 DEF Emit
        <4>2. IncidentOf(e).device = e.device /\ IncidentOf(e).time = e.time
              /\ IncidentOf(e).topic = "incident.created"
          BY EventIs DEF IncidentOf, Stages
        <4> QED BY <2>1, <4>1, <4>2 DEF On
      <3> QED BY <2>1, <3>1, <3>2
    <2> QED BY <2>1, <2>2, <2>3
  <1> QED BY <1>1, <1>2, <1>3, <1>4, TopicSteps DEF SetClock, TakeSnapshot, PublishTelemetry

\* What is announced of an id stays announced, and what a thread adds belongs together.
LEMMA CriticalStep ==
    ASSUME TopicInv, StageInv, CriticalInv, [Next]_vars PROVE CriticalInv'
  <1>1. DOMAIN emitted \subseteq DOMAIN emitted' /\ lost \subseteq lost'
    BY EmittedGrows
  <1>2. ASSUME NEW e \in DOMAIN emitted, NEW id, id = <<e.device, e.time>>
        PROVE  Belongs(e, id)'
    <2>1. Belongs(e, id)
      BY <1>2 DEF CriticalInv
    <2>2. \A topic : On(topic, id) \subseteq On(topic, id)'
      BY <1>1 DEF On
    <2>3. ASSUME NEW v \in Workers, AboutTo(v, id)
          PROVE  \/ id \in lost' \/ AboutTo(v, id)'
                 \/ \E o \in DOMAIN emitted' : o \in On("incident.created", id)'
      <3>1. worker[v].pc \in Working /\ Current(v).id = id
        BY <2>3 DEF AboutTo, Working, Stages
      <3>2. Current(v).id = <<Current(v).device, Current(v).time>>
        BY <3>1, WorksOnFirst
      <3> QED BY <2>3, <3>1, <3>2, AboutToStep
    <2> QED BY <1>1, <2>1, <2>2, <2>3 DEF Belongs
  <1>3. ASSUME NEW w \in Workers, ReaderActs(w), Publishes(w),
               NEW e, e = Event(Current(w), worker[w].pc), NEW id, id = <<e.device, e.time>>
        PROVE  Belongs(e, id)'
    <2> DEFINE c == Current(w)
    <2>1. worker[w].pc \in Stages /\ e \in DOMAIN emitted'
      BY <1>3 DEF Publishes, Emit
    <2>2. c.id = <<c.device, c.time>>
      BY <2>1, WorksOnFirst DEF Working, Stages
    <2>3. id = c.id
      BY <1>3, <2>1, <2>2, EventIs
    <2>4. CASE worker[w].pc = "health"
      <3>1. e.topic = "device.health" /\ e.value = EvaluateHealth(c.obs)
        BY <1>3, <2>4, EventIs DEF HealthOf
      <3>2. ASSUME e.value = "CRITICAL", id \notin lost' PROVE AboutTo(w, id)'
        <4>1. After(c, worker[w].pc) = "alert"
          BY <2>4, <3>1, <3>2 DEF After
        <4>2. worker'[w].pc = "alert" /\ Current(w)' = c
          BY <1>3, <2>1, <2>3, <3>2, <4>1, StageMoves
        <4> QED BY <2>3, <3>1, <3>2, <4>2 DEF AboutTo
      <3> QED BY <3>1, <3>2 DEF Belongs
    <2>5. CASE worker[w].pc = "alert"
      BY <1>3, <2>5, EventIs DEF AlertOf, Belongs
    <2>6. CASE worker[w].pc = "incident"
      <3>1. /\ HealthOf(c) \in DOMAIN emitted' /\ AlertOf(c) \in DOMAIN emitted'
            /\ EvaluateHealth(c.obs) = "CRITICAL"
        BY <1>1, <2>6 DEF StageInv
      <3>2. e.topic = "incident.created" /\ e.value = AlertReason(c.obs)
        BY <1>3, <2>6, EventIs DEF IncidentOf
      <3>3. /\ HealthOf(c).topic = "device.health" /\ HealthOf(c).value = "CRITICAL"
            /\ <<HealthOf(c).device, HealthOf(c).time>> = id
            /\ AlertOf(c).topic = "device.alert" /\ AlertOf(c).value = e.value
            /\ <<AlertOf(c).device, AlertOf(c).time>> = id
        BY <2>2, <2>3, <3>1, <3>2, EventIs DEF HealthOf, AlertOf, Stages
      <3> QED BY <3>1, <3>2, <3>3 DEF Belongs, On
    <2> QED BY <2>1, <2>4, <2>5, <2>6 DEF Stages
  <1>4. CASE UNCHANGED emitted
    BY <1>2, <1>4 DEF CriticalInv
  <1>5. ASSUME NEW w \in Workers, ReaderActs(w), Publishes(w) PROVE CriticalInv'
    <2>1. DOMAIN emitted' = DOMAIN emitted \cup {Event(Current(w), worker[w].pc)}
      BY <1>5 DEF Publishes, Emit
    <2> QED BY <1>2, <1>3, <1>5, <2>1 DEF CriticalInv
  <1> QED BY <1>4, <1>5, TopicSteps, PublishSteps
          DEF SetClock, TakeSnapshot, PublishTelemetry, Die

\* TelemetryConsumer.process publishes health, alert and incident one after the other, on
\* topics that anyone may read meanwhile: however many threads process the topic, wherever a
\* publisher raises and whenever the process dies, a critical device that was announced has
\* its incident, or is about to get it, or was cut short there, and no incident is there
\* without its alert and its health.
THEOREM CriticalHasItsIncident == Spec => []CriticalHasIncident
  <1>1. Init => TopicInv /\ StageInv /\ CriticalInv
    BY TopicInit DEF Init, StageInv, CriticalInv, Idle
  <1>2. TopicInv /\ StageInv /\ CriticalInv /\ [Next]_vars
           => (TopicInv /\ StageInv /\ CriticalInv)'
    BY TopicStep, StageStep, CriticalStep
  <1>3. CriticalInv => CriticalHasIncident
    BY DEF CriticalInv, Belongs, On, AboutTo, CriticalHasIncident
  <1> QED BY <1>1, <1>2, <1>3, PTL DEF Spec
================================================================================
