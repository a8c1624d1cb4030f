------------------------- MODULE MCBenchmarkScenario -------------------------
(* An instance of BenchmarkScenario for TLC. *)
EXTENDS BenchmarkScenario
=============================================================================
