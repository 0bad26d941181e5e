------------------------------ MODULE MCApiKeys ------------------------------
(* Instances of ApiKeys for TLC. *)
EXTENDS ApiKeys, TLC

CONSTANTS admin, user, k1, k2, c1, c2

\* Both keys begin alike.
SamePrefix == [k \in Keys |-> k1]

Symmetry == Permutations(Calls)

=============================================================================
