----------------------------- MODULE MCBenchmark ------------------------------
(***************************************************************************)
(* A small instance of Benchmark for TLC: a user has at most one manager,  *)
(* or may have the two managers a and b.                                   *)
(***************************************************************************)
EXTENDS Benchmark

CONSTANTS r, a, b, c

MCManagers == {M \in SUBSET Id : Cardinality(M) <= 1} \cup {{a, b}}
MCNamed == {{}, {r}}
=============================================================================
