--------------------------- MODULE MCTelemetryQueue ---------------------------
(* Instances of TelemetryQueue for TLC.                                    *)
EXTENDS TelemetryQueue, TLC

SetterSymmetry == Permutations(Setters)

===============================================================================
