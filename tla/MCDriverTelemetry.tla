--------------------------- MODULE MCDriverTelemetry ---------------------------
(* Instances of DriverTelemetry for TLC.                                   *)
EXTENDS DriverTelemetry

===============================================================================
