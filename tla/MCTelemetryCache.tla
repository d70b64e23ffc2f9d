-------------------------- MODULE MCTelemetryCache --------------------------
(* Model-checking instances of TelemetryCache.                              *)
EXTENDS TelemetryCache

=============================================================================
