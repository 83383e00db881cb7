----------------------------- MODULE MCModelCache -----------------------------
(* Instances of ModelCache for TLC. *)
EXTENDS ModelCache

CONSTANTS t1, t2, t3, k1, k2, k3

ThreeThreads == {t1, t2, t3}
ThreeKeys == {k1, k2, k3}
Symmetry == Permutations(Threads) \cup Permutations(Keys)
=============================================================================
