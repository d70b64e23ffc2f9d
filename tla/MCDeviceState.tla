--------------------------- MODULE MCDeviceState ---------------------------
(* Model-checking instances of DeviceState, with the adaptive poller's     *)
(* thresholds (adaptive_poller.py); the longest backoff and the outlet      *)
(* window are shorter, as one doubling past the initial backoff shows all  *)
(* the cases.  The loads lie on either side of each threshold.             *)
EXTENDS DeviceState

CheckedLoads == {0, 3, 60}
=============================================================================
