--------------------------- MODULE MCTelemetryBoard ---------------------------
(* Instances of TelemetryBoard for TLC.                                    *)
EXTENDS TelemetryBoard, TLC

CONSTANTS A, B

CarSymmetry == Permutations(Cars)

===============================================================================
