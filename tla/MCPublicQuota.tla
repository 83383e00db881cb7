---------------------------- MODULE MCPublicQuota ----------------------------
(* Instances of PublicQuota for TLC. *)
EXTENDS PublicQuota, TLC

CONSTANTS b1, u1, v1, v2, r1, r2, p1, p2

OneBrowser == {b1}
OneUser == {u1}
TwoVisitors == {v1, v2}
TwoRequests == {r1, r2}
TwoProcesses == {p1, p2}
Symmetry == Permutations(Visitors) \cup Permutations(Requests) \cup Permutations(Processes)
=============================================================================
