------------------------- MODULE MCMetricsCollector -------------------------
(* Small instances of MetricsCollector for TLC.                            *)
EXTENDS MetricsCollector, TLC

Symmetry == Permutations(Scrapes) \cup Permutations(Handlers)
=============================================================================
