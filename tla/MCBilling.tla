------------------------------ MODULE MCBilling ------------------------------
(* Instances of Billing for TLC. *)
EXTENDS Billing, TLC

CONSTANTS u1, u2, c1, c2, s1, s2, h1, h2

TwoUsers == {u1, u2}
TwoCustomers == {c1, c2}
TwoSubs == {s1, s2}
TwoHandlers == {h1, h2}
Symmetry ==
    Permutations(Users) \cup Permutations(Customers) \cup Permutations(Subs)
        \cup Permutations(Handlers)
=============================================================================
