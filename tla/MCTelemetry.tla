------------------------------ MODULE MCTelemetry ------------------------------
(* Instances of Telemetry for TLC.                                          *)
EXTENDS Telemetry, TLC

AddrSymmetry == Permutations(Addr)
TelemetrySymmetry == AddrSymmetry \cup Permutations(Thread)
==============================================================================
