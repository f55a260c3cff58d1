--------------------------- MODULE MCTelemetryRing ---------------------------
(* Instances of TelemetryRing for TLC.                                     *)
EXTENDS TelemetryRing, TLC
=============================================================================
