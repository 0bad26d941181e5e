-------------------------- MODULE MCMatchingEngine --------------------------
(* Instances of MatchingEngine for TLC. *)
EXTENDS MatchingEngine, TLC

CONSTANTS a, b, c, alice, bob

OneOwner == [id \in Ids |-> alice]
Symmetric == Permutations(Ids)

=============================================================================
