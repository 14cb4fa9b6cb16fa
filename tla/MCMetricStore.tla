--------------------------- MODULE MCMetricStore ---------------------------
(* A small instance of MetricStore for TLC.  Nothing in it tells one       *)
(* device, or one reading, from another, and no liveness is checked.       *)
EXTENDS MetricStore, TLC

StoreSymmetry == Permutations(Devices) \cup Permutations(Readings)
=============================================================================
