---------------------------- MODULE MCBenchmarkRuns ----------------------------
(* Instances of BenchmarkRuns for TLC. *)
EXTENDS BenchmarkRuns, TLC

CONSTANTS r1, r2, w1, w2, s1, s2, c1

OneRun == {r1}
TwoRuns == {r1, r2}
TwoWorkers == {w1, w2}
OneSubmitter == {s1}
TwoSubmitters == {s1, s2}
OneCanceller == {c1}

Symmetry == Permutations(Runs) \cup Permutations(Workers) \cup Permutations(Submitters)
=============================================================================
