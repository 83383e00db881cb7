--------------------------- MODULE MCJobLifecycle ---------------------------
(* Instances of JobLifecycle for TLC. *)
EXTENDS JobClaims, TLC

CONSTANTS j1, j2, j3, w1, w2, s1, s2, c1, c2

OneJob == {j1}
TwoJobs == {j1, j2}
ThreeJobs == {j1, j2, j3}
OneWorker == {w1}
TwoWorkers == {w1, w2}
OneSubmitter == {s1}
TwoSubmitters == {s1, s2}
NoCancellers == {}
OneCanceller == {c1}
TwoCancellers == {c1, c2}

Symmetry == Permutations(Jobs) \cup Permutations(Workers)
                \cup Permutations(Submitters) \cup Permutations(Cancellers)
=============================================================================
