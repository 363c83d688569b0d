--------------------------- MODULE MCDeviceSimulator ---------------------------
(* Constants for model-checking DeviceSimulator.                               *)
EXTENDS DeviceSimulator, TLC

CONSTANTS w1, w2

AnyWorker == Permutations(Workers)

\* The least and a too small interval, and a good key together with one too large.
MCPatches ==
    { "telemetry_interval_seconds" :> 5, "telemetry_interval_seconds" :> 4,
      ("firmware_channel" :> "candidate") @@ ("packet_loss_threshold" :> 101) }
=============================================================================
